---- MODULE Spec2Model ----
(***************************************************************************)
(* A model of paperbroker's execution-and-margin engine: fill_order        *)
(* (logic/fill_order.py), get_maintenance_margin                           *)
(* (logic/maintenance_margin.py) and OCOGroup.evaluate (oco.py); of the    *)
(* construction of orders (orders.py), of option symbols (assets.py) and   *)
(* of the callback-fed quote cache (adapters/quotes/SchwabQuoteAdapter.py).*)
(*                                                                         *)
(* All money amounts are integers counted in cents; quantities are         *)
(* integers.  An optional value (Python None or a value) is a sequence of  *)
(* length 0 or 1.                                                          *)
(***************************************************************************)
EXTENDS Integers, Sequences, FiniteSets, TLC

VARIABLES account, orders, oco, quotes, last, steps, ob, mm, opt, feed

vars == <<account, orders, oco, quotes, last, steps, ob, mm, opt, feed>>

\* the value of a part of the state that a specification leaves out
Idle == <<>>

------------------------------------------------------------------------------
(* Bounds of the model *)

\* number of calls and quote updates of one behaviour
MaxSteps == 4

\* number of add_leg and duplicate calls on one order
MaxOrderCalls == 3

\* number of strategies passed to one get_maintenance_margin call
MaxStrategies == 2

\* callbacks of the quote stream in a behaviour
MaxCallbacks == 2

------------------------------------------------------------------------------
(* Optional values and arithmetic helpers *)

None == <<>>

Some(x) == <<x>>

IsNone(o) == Len(o) = 0

Val(o) == o[1]

Abs(x) == IF x < 0 THEN -x ELSE x

Min(a, b) == IF a <= b THEN a ELSE b

Max(a, b) == IF a >= b THEN a ELSE b

\* math.copysign(1, x); the zero a drained position ends with is +0.0
CopySign1(x) == IF x < 0 THEN -1 ELSE 1

------------------------------------------------------------------------------
(* Instruments: assets.py *)

\* Asset.__init__: a plain asset, the class asset_factory gives a short symbol
Asset(sym) ==
    [symbol |-> sym, asset_type |-> "asset", cls |-> "Asset",
     underlying |-> "", strike |-> 0]

\* Equity.__init__
Equity(sym) ==
    [symbol |-> sym, asset_type |-> "equity", cls |-> "Equity",
     underlying |-> "", strike |-> 0]

\* Put.__init__ / Option.__init__ with the decoded fields given
Put(sym, und, k) ==
    [symbol |-> sym, asset_type |-> "put", cls |-> "Put",
     underlying |-> und, strike |-> k]

\* Call.__init__ / Option.__init__ with the decoded fields given
Call(sym, und, k) ==
    [symbol |-> sym, asset_type |-> "call", cls |-> "Call",
     underlying |-> und, strike |-> k]

\* isinstance(other, c) over the class tree Asset > Equity, Asset > Option > Put, Call
IsInstance(other, c) ==
    CASE c = "Asset"  -> TRUE
      [] c = "Equity" -> other.cls = "Equity"
      [] c = "Option" -> other.cls \in {"Option", "Put", "Call"}
      [] c = "Put"    -> other.cls = "Put"
      [] c = "Call"   -> other.cls = "Call"
      [] OTHER        -> FALSE

\* Asset.__eq__(self, other) for an Asset other
AssetEq(self, other) ==
    IsInstance(other, self.cls) /\ self.symbol = other.symbol

------------------------------------------------------------------------------
(* Quotes *)

\* the stock symbols quoted in the model
Symbols == {"AAA", "BBB"}

\* quoted prices, in cents
Prices == {990, 1000, 1050}

\* QuoteAdapter.get_quote: the quote stored under the asset's symbol, or None
GetQuote(q, asset) == q[asset.symbol]

\* Estimator.estimate: the unsigned per-unit price of a present quote
Estimate(quote, quantity) == Abs(Val(quote))

------------------------------------------------------------------------------
(* Maintenance margin: logic/maintenance_margin.py *)

\* group_into_basic_strategies: every position on its own is an asset
\* strategy with the direction of its quantity
GroupIntoBasicStrategies(positions) ==
    [i \in 1..Len(positions) |->
        [strategy_type |-> "asset",
         asset         |-> positions[i].asset,
         quantity      |-> positions[i].quantity,
         direction     |-> IF positions[i].quantity > 0 THEN "long" ELSE "short"]]

\* a short equity: the cost to repurchase, |quantity| x price
ShortEquityMargin(strategy, q) ==
    IF IsNone(GetQuote(q, strategy.asset))
    THEN [err |-> "Missing price for margin", value |-> 0]
    ELSE [err |-> "",
          value |-> Abs(strategy.quantity) * Val(GetQuote(q, strategy.asset))]

\* CreditPutSpreadMargin with 0 in place of a price that is missing
CreditPutSpreadMargin_ZeroForMissing(strategy, q) ==
    LET sell_price == IF IsNone(GetQuote(q, strategy.sell_option)) THEN 0
                      ELSE Val(GetQuote(q, strategy.sell_option))
        buy_price  == IF IsNone(GetQuote(q, strategy.buy_option)) THEN 0
                      ELSE Val(GetQuote(q, strategy.buy_option))
        spread_width == Abs(strategy.sell_option.strike - strategy.buy_option.strike)
    IN [err |-> "", value |-> (spread_width - Abs(sell_price - buy_price)) * 100]

\* a credit put spread: the width of the strikes less the credit; .price of
\* a quote that is None, or a price that is None in the difference, raises
CreditPutSpreadMargin(strategy, q) ==
    IF \/ IsNone(GetQuote(q, strategy.sell_option))
       \/ IsNone(GetQuote(q, strategy.buy_option))
    THEN [err |-> "AttributeError or TypeError: quote or price is None", value |-> 0]
    ELSE LET spread_width == Abs(strategy.sell_option.strike - strategy.buy_option.strike)
             credit == Abs(Val(GetQuote(q, strategy.sell_option))
                           - Val(GetQuote(q, strategy.buy_option)))
             per_share_margin == spread_width - credit
         IN [err |-> "", value |-> per_share_margin * 100]

\* a credit call spread: the width of the strikes
CreditCallSpreadMargin(strategy, q) ==
    [err |-> "",
     value |-> (strategy.buy_option.strike - strategy.sell_option.strike) * 100]

\* NakedPutMargin with the out-of-the-money amount of a call
NakedPutMargin_CallOtm(strategy, q) ==
    IF \/ IsNone(GetQuote(q, strategy.asset))
       \/ IsNone(q[strategy.asset.underlying])
    THEN [err |-> "Cannot compute margin for naked put", value |-> 0]
    ELSE LET option_price     == Abs(Val(GetQuote(q, strategy.asset)))
             underlying_price == Val(q[strategy.asset.underlying])
             strike           == strategy.asset.strike
             otm              == Max(0, strike - underlying_price)
             per_share_margin ==
                 option_price + Max((underlying_price \div 5) - otm, strike \div 10)
         IN [err |-> "",
             value |-> per_share_margin * 100 * Abs(strategy.quantity)]

\* a naked short put
NakedPutMargin(strategy, q) ==
    IF \/ IsNone(GetQuote(q, strategy.asset))
       \/ IsNone(q[strategy.asset.underlying])
    THEN [err |-> "Cannot compute margin for naked put", value |-> 0]
    ELSE LET option_price     == Abs(Val(GetQuote(q, strategy.asset)))
             underlying_price == Val(q[strategy.asset.underlying])
             strike           == strategy.asset.strike
             otm              == Max(0, underlying_price - strike)
             per_share_margin ==
                 option_price + Max((underlying_price \div 5) - otm, strike \div 10)
         IN [err |-> "",
             value |-> per_share_margin * 100 * Abs(strategy.quantity)]

\* a naked short call
NakedCallMargin(strategy, q) ==
    IF \/ IsNone(GetQuote(q, strategy.asset))
       \/ IsNone(q[strategy.asset.underlying])
    THEN [err |-> "Cannot compute margin for naked call", value |-> 0]
    ELSE LET option_price     == Abs(Val(GetQuote(q, strategy.asset)))
             underlying_price == Val(q[strategy.asset.underlying])
             strike           == strategy.asset.strike
             otm              == Max(0, strike - underlying_price)
             per_share_margin ==
                 option_price
                 + Max((underlying_price \div 5) - otm, underlying_price \div 10)
         IN [err |-> "",
             value |-> per_share_margin * 100 * Abs(strategy.quantity)]

\* the contribution of one strategy: [err, value]
StrategyMargin(strategy, q) ==
    IF strategy.strategy_type = "asset" /\ strategy.direction = "long"
    THEN [err |-> "", value |-> 0]
    ELSE IF /\ strategy.strategy_type = "asset"
            /\ strategy.asset.asset_type = "equity"
            /\ strategy.direction = "short"
    THEN ShortEquityMargin(strategy, q)
    ELSE IF strategy.strategy_type = "covered"
    THEN [err |-> "", value |-> 0]
    ELSE IF strategy.strategy_type = "spread" /\ strategy.spread_type = "debit"
    THEN [err |-> "", value |-> 0]
    ELSE IF /\ strategy.strategy_type = "spread"
            /\ strategy.spread_type = "credit"
            /\ strategy.option_type = "put"
    THEN CreditPutSpreadMargin(strategy, q)
    ELSE IF /\ strategy.strategy_type = "spread"
            /\ strategy.spread_type = "credit"
            /\ strategy.option_type = "call"
    THEN CreditCallSpreadMargin(strategy, q)
    ELSE IF /\ strategy.strategy_type = "asset"
            /\ strategy.direction = "short"
            /\ IsInstance(strategy.asset, "Put")
    THEN NakedPutMargin(strategy, q)
    ELSE IF /\ strategy.strategy_type = "asset"
            /\ strategy.direction = "short"
            /\ IsInstance(strategy.asset, "Call")
    THEN NakedCallMargin(strategy, q)
    ELSE [err |-> "A strategy was provided that we do not know", value |-> 0]

RECURSIVE MarginLoop(_, _, _, _)
\* one round of the loop: the contribution m of strategy i is added to the
\* total, or its exception ends the loop
MarginAdd(m, strategies, q, i, total) ==
    IF m.err # ""
    THEN [err |-> m.err, value |-> 0]
    ELSE MarginLoop(strategies, q, i + 1, total + m.value)

\* the loop over the strategies, from strategy i on
MarginLoop(strategies, q, i, total) ==
    IF i > Len(strategies)
    THEN [err |-> "", value |-> total]
    ELSE MarginAdd(StrategyMargin(strategies[i], q), strategies, q, i, total)

\* get_maintenance_margin(positions=..., quote_adapter=...): [err, value]
GetMaintenanceMargin(positions, q) ==
    MarginLoop(GroupIntoBasicStrategies(positions), q, 1, 0)

------------------------------------------------------------------------------
(* Order fill logic: logic/fill_order.py *)

\* str.lower() on the order types of the model
Lower(order_type) ==
    CASE order_type = "BTO" -> "bto"
      [] order_type = "STO" -> "sto"
      [] order_type = "BTC" -> "btc"
      [] order_type = "STC" -> "stc"
      [] OTHER              -> order_type

\* order_type[0].lower() == 'b'
IsBuyType(order_type) == Lower(order_type) \in {"bto", "btc"}

\* order_type[0].lower() == 's'
IsSellType(order_type) == Lower(order_type) \in {"sto", "stc"}

RECURSIVE SumQuantity(_, _, _)
\* sum(p.quantity for p in account.positions if p.asset == leg.asset), from index i
SumQuantity(positions, asset, i) ==
    IF i > Len(positions)
    THEN 0
    ELSE (IF AssetEq(positions[i].asset, asset) THEN positions[i].quantity ELSE 0)
         + SumQuantity(positions, asset, i + 1)

\* a position the leg can close: the same asset, and the sign opposite to the leg's
IsClosable(position, leg) ==
    /\ AssetEq(position.asset, leg.asset)
    /\ CopySign1(position.quantity) = CopySign1(leg.quantity) * (-1)

RECURSIVE SumClosable(_, _, _)
\* quantity_available_to_close, from index i
SumClosable(positions, leg, i) ==
    IF i > Len(positions)
    THEN 0
    ELSE (IF IsClosable(positions[i], leg) THEN positions[i].quantity ELSE 0)
         + SumClosable(positions, leg, i + 1)

\* QuantityToClose that takes the whole position whatever remains to close
QuantityToClose_WholePosition(position, quantity_to_close_remaining) ==
    Abs(position.quantity)

\* what the loop over closable_positions takes from one position
QuantityToClose(position, quantity_to_close_remaining) ==
    Min(quantity_to_close_remaining, Abs(position.quantity))

RECURSIVE ReducePositions(_, _, _, _)
\* the loop over closable_positions, in the order account.positions stores them
ReducePositions(positions, leg, i, quantity_to_close_remaining) ==
    IF i > Len(positions)
    THEN positions
    ELSE IF IsClosable(positions[i], leg) /\ quantity_to_close_remaining > 0
    THEN LET quantity_to_close ==
                 QuantityToClose(positions[i], quantity_to_close_remaining)
             reduced ==
                 [positions[i] EXCEPT
                    !.quantity = @ + CopySign1(@) * (-1) * quantity_to_close]
         IN ReducePositions([positions EXCEPT ![i] = reduced], leg, i + 1,
                            quantity_to_close_remaining - quantity_to_close)
    ELSE ReducePositions(positions, leg, i + 1, quantity_to_close_remaining)

\* 100 for an Option instrument, 1 otherwise
Multiplier(asset) == IF IsInstance(asset, "Option") THEN 100 ELSE 1

\* CashAfterLeg without the multiplier of option legs
CashAfterLeg_NoMultiplier(cash, leg, cost_basis) ==
    cash - Abs(cost_basis * leg.quantity) * CopySign1(leg.quantity)

\* the cash the leg moves: account.cash -= |cost_basis * quantity| * sign * multiplier
CashAfterLeg(cash, leg, cost_basis) ==
    cash - Abs(cost_basis * leg.quantity) * CopySign1(leg.quantity) * Multiplier(leg.asset)

\* the LedgerEntry of one executed leg (timestamp, account_id, underlying_symbol
\* and the always-None realized_pnl are left out)
LedgerEntry(order, leg, cost_basis, cash_before, cash_after, qty_before, qty_after) ==
    [order_id            |-> order.order_id,
     symbol              |-> leg.asset.symbol,
     asset_type          |-> leg.asset.asset_type,
     side                |-> Lower(leg.order_type),
     quantity            |-> leg.quantity,
     multiplier          |-> Multiplier(leg.asset),
     fill_price          |-> Abs(cost_basis),
     gross_cash          |-> cash_after - cash_before,
     position_qty_before |-> qty_before,
     position_qty_after  |-> qty_after]

\* the new Position of an opening leg
Position(leg, cost_basis) ==
    [asset |-> leg.asset, quantity |-> leg.quantity, cost_basis |-> cost_basis]

\* RecordLedgerEntry that puts the entry at the head of the ledger
RecordLedgerEntry_AtHead(acct, entry) ==
    [acct EXCEPT !.ledger = <<entry>> \o @]

\* record_ledger_entry
RecordLedgerEntry(acct, entry) ==
    [acct EXCEPT !.ledger = Append(@, entry)]

\* the end of the loop body: the ledger entry of the leg, from the account
\* before the leg and the account after its cash and position changes
RecordLeg(before, after, order, leg, cost_basis) ==
    [account |->
        RecordLedgerEntry(after,
            LedgerEntry(order, leg, cost_basis, before.cash, after.cash,
                        SumQuantity(before.positions, leg.asset, 1),
                        SumQuantity(after.positions, leg.asset, 1))),
     err |-> ""]

\* ApplyLeg without the test of the quantity open: a closing leg closes what
\* there is
ApplyLeg_NoQuantityTest(before, paid, order, leg, cost_basis) ==
    IF Lower(leg.order_type) \in {"bto", "sto"}
    THEN RecordLeg(before,
                   [paid EXCEPT !.positions = Append(@, Position(leg, cost_basis))],
                   order, leg, cost_basis)
    ELSE IF { i \in 1..Len(paid.positions) : IsClosable(paid.positions[i], leg) } = {}
    THEN [account |-> paid, err |-> "There are no available positions to close"]
    ELSE RecordLeg(before,
                   [paid EXCEPT
                      !.positions = ReducePositions(@, leg, 1, Abs(leg.quantity))],
                   order, leg, cost_basis)

\* the position changes of a leg on the account its cash change left (paid)
ApplyLeg(before, paid, order, leg, cost_basis) ==
    IF Lower(leg.order_type) \in {"bto", "sto"}
    THEN RecordLeg(before,
                   [paid EXCEPT !.positions = Append(@, Position(leg, cost_basis))],
                   order, leg, cost_basis)
    ELSE IF { i \in 1..Len(paid.positions) : IsClosable(paid.positions[i], leg) } = {}
    THEN [account |-> paid, err |-> "There are no available positions to close"]
    ELSE IF Abs(SumClosable(paid.positions, leg, 1)) < Abs(leg.quantity)
    THEN [account |-> paid, err |-> "There are not enough open positions to close"]
    ELSE RecordLeg(before,
                   [paid EXCEPT
                      !.positions = ReducePositions(@, leg, 1, Abs(leg.quantity))],
                   order, leg, cost_basis)

\* the body of the loop over order.legs for one leg: [account, err]; a raise
\* leaves the account as the statements before it made it
ProcessLeg(acct, order, leg, cost_basis) ==
    IF IsBuyType(leg.order_type) /\ (leg.quantity < 0 \/ cost_basis < 0)
    THEN [account |-> acct, err |-> "BTO or BTC legs must be positive"]
    ELSE IF IsSellType(leg.order_type) /\ (leg.quantity > 0 \/ cost_basis > 0)
    THEN [account |-> acct, err |-> "STO or STC legs must be negative"]
    ELSE ApplyLeg(acct, [acct EXCEPT !.cash = CashAfterLeg(@, leg, cost_basis)],
                  order, leg, cost_basis)

RECURSIVE ProcessLegs(_, _, _, _)
\* after leg k: its exception ends the loop, or the loop goes on with leg k + 1
NextLeg(r, order, leg_prices, k) ==
    IF r.err # ""
    THEN [account |-> r.account, err |-> r.err, failed_leg |-> k]
    ELSE ProcessLegs(r.account, order, leg_prices, k + 1)

\* the loop over order.legs from leg k on: [account, err, failed_leg]
ProcessLegs(acct, order, leg_prices, k) ==
    IF k > Len(order.legs)
    THEN [account |-> acct, err |-> "", failed_leg |-> 0]
    ELSE NextLeg(ProcessLeg(acct, order, order.legs[k], leg_prices[k]),
                 order, leg_prices, k)

\* the signed per-unit price of a leg whose quote is present
LegPrice(leg, q) ==
    Estimate(GetQuote(q, leg.asset), leg.quantity) * CopySign1(leg.quantity)

\* leg_prices
LegPrices(order, q) ==
    [k \in 1..Len(order.legs) |-> LegPrice(order.legs[k], q)]

RECURSIVE OrderPrice(_, _, _)
\* order_price: the sum over the legs of px * abs(leg.quantity), from leg k on
OrderPrice(legs, q, k) ==
    IF k > Len(legs)
    THEN 0
    ELSE LegPrice(legs[k], q) * Abs(legs[k].quantity) + OrderPrice(legs, q, k + 1)

\* TrailBest that follows the latest order_price
TrailBest_Latest(order, order_price) == order_price

\* trail_best after an evaluation that saw order_price
TrailBest(order, order_price) ==
    IF IsNone(order.trail_best)
    THEN order_price
    ELSE Min(Val(order.trail_best), order_price)

\* trail_amt for the trail_best just set
TrailAmount(order, trail_best) ==
    IF order.trail_is_percent
    THEN (Abs(trail_best) * order.trail) \div 100
    ELSE Abs(order.trail)

\* the trailing-stop update: trail_best and the trigger price re-derived from it
UpdateTrail(order, order_price) ==
    IF order.condition = "trailing_stop"
    THEN [order EXCEPT
            !.trail_best = Some(TrailBest(order, order_price)),
            !.price      = Some(TrailBest(order, order_price)
                                + TrailAmount(order, TrailBest(order, order_price)))]
    ELSE order

\* FillTest with a strict comparison for limit orders
FillTest_StrictLimit(order, order_price) ==
    \/ order.condition = "market"
    \/ /\ order.condition = "limit"
       /\ ~IsNone(order.price)
       /\ order_price < Val(order.price)
    \/ /\ order.condition \in {"stop", "trailing_stop"}
       /\ ~IsNone(order.price)
       /\ order_price >= Val(order.price)

\* FillTest with a strict comparison for stop orders
FillTest_StrictStop(order, order_price) ==
    \/ order.condition = "market"
    \/ /\ order.condition = "limit"
       /\ ~IsNone(order.price)
       /\ order_price <= Val(order.price)
    \/ /\ order.condition = "stop"
       /\ ~IsNone(order.price)
       /\ order_price > Val(order.price)
    \/ /\ order.condition = "trailing_stop"
       /\ ~IsNone(order.price)
       /\ order_price >= Val(order.price)

\* the fill test on the order as the trailing-stop update left it
FillTest(order, order_price) ==
    \/ order.condition = "market"
    \/ /\ order.condition = "limit"
       /\ ~IsNone(order.price)
       /\ order_price <= Val(order.price)
    \/ /\ order.condition = "stop"
       /\ ~IsNone(order.price)
       /\ order_price >= Val(order.price)
    \/ /\ order.condition = "trailing_stop"
       /\ ~IsNone(order.price)
       /\ order_price >= Val(order.price)

\* Prune that keeps every position
Prune_KeepsAll(positions) == positions

\* account.positions without the positions that are completely closed
Prune(positions) == SelectSeq(positions, LAMBDA p : p.quantity # 0)

\* the order when fill_order ends normally: marked filled when the legs ran
MarkFilled(order, filled) ==
    IF filled THEN [order EXCEPT !.status = "filled"] ELSE order

\* what a fill_order call hands back: the account and the order as the call
\* leaves them, err (the exception raised, "" when it returns), and what the
\* call went through: priced (every leg was priced), passed (the fill test
\* passed), order_price, failed_leg (the leg whose processing raised, or 0)
Outcome(acct, order, err, priced, passed, order_price, failed_leg) ==
    [account |-> acct, order |-> order, err |-> err, priced |-> priced,
     passed |-> passed, order_price |-> order_price, failed_leg |-> failed_leg]

\* Finish that marks the order and leaves the stored margin as it was
Finish_KeepsMargin(pruned, margin, order, filled, order_price) ==
    IF margin.err # ""
    THEN Outcome(pruned, order, margin.err, TRUE, filled, order_price, 0)
    ELSE Outcome(pruned, MarkFilled(order, filled), "", TRUE, filled, order_price, 0)

\* Finish with the margin stored only when the order filled
Finish_MarginOnlyWhenFilled(pruned, margin, order, filled, order_price) ==
    IF ~filled
    THEN Outcome(pruned, order, "", TRUE, FALSE, order_price, 0)
    ELSE IF margin.err # ""
    THEN Outcome(pruned, order, margin.err, TRUE, filled, order_price, 0)
    ELSE Outcome([pruned EXCEPT !.maintenance_margin = margin.value],
                 MarkFilled(order, filled), "", TRUE, filled, order_price, 0)

\* the last statements of fill_order, on the pruned account and the margin
\* computed for it: store the margin, then mark the order
Finish(pruned, margin, order, filled, order_price) ==
    IF margin.err # ""
    THEN Outcome(pruned, order, margin.err, TRUE, filled, order_price, 0)
    ELSE Outcome([pruned EXCEPT !.maintenance_margin = margin.value],
                 MarkFilled(order, filled), "", TRUE, filled, order_price, 0)

\* get_maintenance_margin on the positions the pruning left
Recompute(pruned, order, q, filled, order_price) ==
    Finish(pruned, GetMaintenanceMargin(pruned.positions, q), order, filled, order_price)

\* the statements after the fill: prune, recompute the margin, mark the order
PruneAndFinish(acct, order, q, filled, order_price) ==
    Recompute([acct EXCEPT !.positions = Prune(@)], order, q, filled, order_price)

\* after the loop over the legs: r is what the loop left
AfterLegs(r, order, q, order_price) ==
    IF r.err # ""
    THEN Outcome(r.account, order, r.err, TRUE, TRUE, order_price, r.failed_leg)
    ELSE PruneAndFinish(r.account, order, q, TRUE, order_price)

\* the fill test and what follows it, on the order the trailing-stop update left
TestAndFill(acct, order, q, order_price) ==
    IF FillTest(order, order_price)
    THEN AfterLegs(ProcessLegs(acct, order, LegPrices(order, q), 1),
                   order, q, order_price)
    ELSE PruneAndFinish(acct, order, q, FALSE, order_price)

\* the trailing-stop update, then the rest, for the order_price computed
Priced(acct, order, q, order_price) ==
    TestAndFill(acct, UpdateTrail(order, order_price), q, order_price)

\* fill_order(account, order, quote_adapter)
FillOrder(acct, order, q) ==
    IF Len(order.legs) = 0
    THEN Outcome(acct, order, "Orders must have one or more than one leg",
                 FALSE, FALSE, 0, 0)
    ELSE IF \E k \in 1..Len(order.legs) : IsNone(GetQuote(q, order.legs[k].asset))
    THEN Outcome(acct, order, "no quote to estimate from", FALSE, FALSE, 0, 0)
    ELSE Priced(acct, order, q, OrderPrice(order.legs, q, 1))

------------------------------------------------------------------------------
(* Orders and legs: orders.py *)

\* Leg.__init__: the signs of quantity and price follow order_type[0] == 's'
Leg(asset, quantity, order_type, price) ==
    IF order_type \in {"sto", "stc"}
    THEN [asset |-> asset, quantity |-> Abs(quantity) * (-1), order_type |-> order_type,
          price |-> IF IsNone(price) THEN None ELSE Some(Abs(Val(price)) * (-1))]
    ELSE [asset |-> asset, quantity |-> Abs(quantity), order_type |-> order_type,
          price |-> IF IsNone(price) THEN None ELSE Some(Abs(Val(price)))]

\* Order.__init__ with legs given; an order that is no trailing stop keeps
\* the status argument ('open') in trail_best
Order(id, legs, price, condition, trail, trail_is_percent) ==
    [order_id         |-> id,
     legs             |-> legs,
     status           |-> "open",
     price            |-> price,
     condition        |-> condition,
     trail            |-> IF condition = "trailing_stop" THEN trail ELSE 0,
     trail_is_percent |-> IF condition = "trailing_stop" THEN trail_is_percent ELSE FALSE,
     trail_best       |-> IF condition = "trailing_stop" THEN None ELSE Some("open")]

\* asset_factory(symbol) without a service, on the arguments of the model: an
\* Asset object is returned as it is, a (short) symbol string gives a plain
\* Asset, None gives None
AssetFactory(arg) ==
    CASE arg.kind = "asset"  -> Some(arg.asset)
      [] arg.kind = "symbol" -> Some(Asset(arg.symbol))
      [] OTHER               -> None

\* whether a leg of the order is on the asset: _.asset == asset, with the
\* asset of the stored leg on the left
HasLegOn(order, asset) ==
    \E k \in 1..Len(order.legs) : AssetEq(order.legs[k].asset, asset)

\* the end of add_leg: a flat trailing stop scales trail by the quantity of
\* the first leg added, once
BatchTrail(order, trail_is_batched, added_qty) ==
    IF order.condition = "trailing_stop" /\ ~order.trail_is_percent /\ ~trail_is_batched
    THEN [order |-> [order EXCEPT !.trail = Abs(@) * Abs(added_qty)],
          trail_is_batched |-> TRUE, err |-> ""]
    ELSE [order |-> order, trail_is_batched |-> trail_is_batched, err |-> ""]

\* what add_leg leaves when it raises
Rejected(order, trail_is_batched, err) ==
    [order |-> order, trail_is_batched |-> trail_is_batched, err |-> err]

\* order.price after a leg of the given price and quantity was added
AddedPrice(order, price, quantity) ==
    IF ~IsNone(order.price) /\ ~IsNone(price)
    THEN Some(Val(order.price) + Val(price) * Abs(quantity))
    ELSE None

\* Order.add_leg(asset=, quantity=, order_type=, price=): the leg is built
\* from the arguments; order.price takes the price argument as it was passed
AddLegArgs(order, trail_is_batched, asset, quantity, order_type, price) ==
    IF quantity = 0
    THEN Rejected(order, trail_is_batched, "Order Rejected: quantity cannot be None or 0")
    ELSE IF IsNone(AssetFactory(asset))
    THEN Rejected(order, trail_is_batched, "Order.add_leg: an asset is required")
    ELSE IF HasLegOn(order, Val(AssetFactory(asset)))
    THEN Rejected(order, trail_is_batched, "symbol already exists within this order")
    ELSE BatchTrail(
            [order EXCEPT
               !.legs  = Append(@, Leg(Val(AssetFactory(asset)), quantity, order_type, price)),
               !.price = AddedPrice(order, price, quantity)],
            trail_is_batched, quantity)

\* Order.add_leg(leg=leg)
AddLegObject(order, trail_is_batched, leg) ==
    IF HasLegOn(order, leg.asset)
    THEN Rejected(order, trail_is_batched, "symbol already exists within this order")
    ELSE BatchTrail(
            [order EXCEPT
               !.legs  = Append(@, leg),
               !.price = AddedPrice(order, leg.price, leg.quantity)],
            trail_is_batched, leg.quantity)

\* Order.duplicate(times)
Duplicate(order, times) ==
    [order EXCEPT
       !.price = IF IsNone(@) THEN None ELSE Some(Val(@) * times),
       !.legs  = [k \in 1..Len(@) |-> [@[k] EXCEPT !.quantity = @ * times]]]

------------------------------------------------------------------------------
(* One-cancels-other groups: oco.py *)

\* whether order o is one of self.orders
InGroup(group, o) == \E j \in 1..Len(group.orders) : group.orders[j] = o

\* CancelSiblings that cancels nothing
CancelSiblings_None(ords, group, o) == ords

\* the orders after a fill of order o: every other open sibling is canceled
CancelSiblings(ords, group, o) ==
    [i \in DOMAIN ords |->
        IF InGroup(group, i) /\ i # o /\ ords[i].status = "open"
        THEN [ords[i] EXCEPT !.status = "canceled"]
        ELSE ords[i]]

\* what an evaluate call hands back: the account, the orders and the group as
\* the call leaves them, ret (the value returned, None when fill_order raised),
\* err, and invoked (the orders passed to fill_order, in the order of the calls)
Evaluated(acct, ords, group, ret, err, invoked) ==
    [account |-> acct, orders |-> ords, oco |-> group, ret |-> ret, err |-> err,
     invoked |-> invoked]

RECURSIVE EvaluateLoop(_, _, _, _, _, _)
\* after fill_order on sibling o = self.orders[i]: r is what the call left
AfterFill(r, ords, group, q, i, o, invoked) ==
    IF r.err # ""
    THEN Evaluated(r.account, [ords EXCEPT ![o] = r.order], group, None, r.err, invoked)
    ELSE IF r.order.status = "filled"
    THEN Evaluated(r.account,
                   CancelSiblings([ords EXCEPT ![o] = r.order], group, o),
                   [group EXCEPT !.is_active = FALSE],
                   Some(TRUE), "", invoked)
    ELSE EvaluateLoop(r.account, [ords EXCEPT ![o] = r.order], group, q, i + 1, invoked)

\* EvaluateLoop that passes every sibling to fill_order, open or not
EvaluateLoop_NoSkip(acct, ords, group, q, i, invoked) ==
    IF i > Len(group.orders)
    THEN Evaluated(acct, ords, group, Some(FALSE), "", invoked)
    ELSE AfterFill(FillOrder(acct, ords[group.orders[i]], q), ords, group, q, i,
                   group.orders[i], Append(invoked, group.orders[i]))

\* EvaluateLoop that closes the group when the loop ends without a fill
EvaluateLoop_ClosesGroup(acct, ords, group, q, i, invoked) ==
    IF i > Len(group.orders)
    THEN Evaluated(acct, ords, [group EXCEPT !.is_active = FALSE], Some(FALSE), "",
                   invoked)
    ELSE IF ords[group.orders[i]].status # "open"
    THEN EvaluateLoop(acct, ords, group, q, i + 1, invoked)
    ELSE AfterFill(FillOrder(acct, ords[group.orders[i]], q), ords, group, q, i,
                   group.orders[i], Append(invoked, group.orders[i]))

\* the loop of OCOGroup.evaluate over self.orders, from index i on
EvaluateLoop(acct, ords, group, q, i, invoked) ==
    IF i > Len(group.orders)
    THEN Evaluated(acct, ords, group, Some(FALSE), "", invoked)
    ELSE IF ords[group.orders[i]].status # "open"
    THEN EvaluateLoop(acct, ords, group, q, i + 1, invoked)
    ELSE AfterFill(FillOrder(acct, ords[group.orders[i]], q), ords, group, q, i,
                   group.orders[i], Append(invoked, group.orders[i]))

\* Evaluate without the test of is_active
Evaluate_IgnoresActive(acct, ords, group, q) ==
    EvaluateLoop(acct, ords, group, q, 1, <<>>)

\* OCOGroup.evaluate(account, quote_adapter)
Evaluate(acct, ords, group, q) ==
    IF ~group.is_active
    THEN Evaluated(acct, ords, group, Some(TRUE), "", <<>>)
    ELSE EvaluateLoop(acct, ords, group, q, 1, <<>>)

------------------------------------------------------------------------------
(* The state machine: one account, a book of orders, one OCO group over the   *)
(* first two of them, and a quote source whose quotes move between the calls *)

\* the cash the account opens with, in cents
InitialCash == 1000 * 100

AAA == Asset("AAA")

BBB == Equity("BBB")

\* the orders of the book, as their constructors leave them: the two siblings
\* of the OCO group (a buy limit and a sell limit), market orders that open,
\* close and short, limit orders with and without a price, a trailing stop,
\* stop orders with and without a price
Book ==
    << Order(1, <<Leg(AAA, 1, "bto", None)>>, Some(1000), "limit", 0, FALSE),
       Order(2, <<Leg(BBB, 1, "sto", None)>>, Some(-1050), "limit", 0, FALSE),
       Order(3, <<Leg(BBB, 2, "bto", None)>>, None, "market", 0, FALSE),
       Order(4, <<Leg(BBB, 3, "stc", None), Leg(AAA, 1, "btc", None)>>,
             None, "market", 0, FALSE),
       Order(5, <<Leg(BBB, 2, "stc", None)>>, None, "market", 0, FALSE),
       Order(6, <<Leg(AAA, 1, "sto", None)>>, None, "market", 0, FALSE),
       Order(7, <<Leg(BBB, 2, "stc", None)>>, None, "trailing_stop", 10, FALSE),
       Order(8, <<Leg(AAA, 1, "bto", None)>>, None, "limit", 0, FALSE),
       Order(9, <<Leg(AAA, 1, "bto", None)>>, Some(1000), "stop", 0, FALSE),
       Order(10, <<Leg(AAA, 1, "bto", None)>>, None, "stop", 0, FALSE) >>

\* what a call left behind, for the properties: the operation, its outcome
\* and the state it started from
Record(op, o, err, priced, passed, order_price, failed_leg, ret, invoked) ==
    [op |-> op, order |-> o, err |-> err, priced |-> priced,
     passed |-> passed, order_price |-> order_price,
     failed_leg |-> failed_leg, ret |-> ret, invoked |-> invoked,
     pre_account |-> account, pre_orders |-> orders, pre_oco |-> oco,
     pre_quotes |-> quotes]

Init ==
    /\ account = [cash |-> InitialCash, positions |-> <<>>, ledger |-> <<>>,
                  maintenance_margin |-> 0]
    /\ orders = Book
    /\ oco = [orders |-> <<1, 2>>, is_active |-> TRUE]
    /\ quotes = [s \in Symbols |-> Some(1050)]
    /\ steps = 0
    /\ last = Record("init", 0, "", FALSE, FALSE, 0, 0, None, <<>>)
    /\ ob = Idle /\ mm = Idle /\ opt = Idle /\ feed = Idle

\* the state after fill_order on order o left r
FillOrderDone(r, o) ==
    /\ account' = r.account
    /\ orders' = [orders EXCEPT ![o] = r.order]
    /\ last' = Record("fill_order", o, r.err, r.priced, r.passed, r.order_price,
                      r.failed_leg, None, <<o>>)

\* a direct call fill_order(account, orders[o], quote_adapter)
DoFillOrder(o) ==
    /\ steps < MaxSteps
    /\ FillOrderDone(FillOrder(account, orders[o], quotes), o)
    /\ steps' = steps + 1
    /\ UNCHANGED <<oco, quotes, ob, mm, opt, feed>>

\* the state after evaluate left r
EvaluateDone(r) ==
    /\ account' = r.account
    /\ orders' = r.orders
    /\ oco' = r.oco
    /\ last' = Record("evaluate", 0, r.err, FALSE, FALSE, 0, 0, r.ret, r.invoked)

\* a call oco.evaluate(account, quote_adapter)
DoEvaluate ==
    /\ steps < MaxSteps
    /\ EvaluateDone(Evaluate(account, orders, oco, quotes))
    /\ steps' = steps + 1
    /\ UNCHANGED <<quotes, ob, mm, opt, feed>>

\* the feed replaces, or drops, the quote of one symbol
SetQuote(s, v) ==
    /\ steps < MaxSteps
    /\ v # quotes[s]
    /\ quotes' = [quotes EXCEPT ![s] = v]
    /\ last' = Record("set_quote", 0, "", FALSE, FALSE, 0, 0, None, <<>>)
    /\ steps' = steps + 1
    /\ UNCHANGED <<account, orders, oco, ob, mm, opt, feed>>

Next ==
    \/ \E o \in DOMAIN orders : DoFillOrder(o)
    \/ DoEvaluate
    \/ \E s \in Symbols, v \in {None} \cup {Some(p) : p \in Prices} : SetQuote(s, v)

Spec == Init /\ [][Next]_vars

\* the calls of an OCO group that nothing else drives: no direct fill_order
NextOCO ==
    \/ DoEvaluate
    \/ \E s \in Symbols, v \in {None} \cup {Some(p) : p \in Prices} : SetQuote(s, v)

SpecOCO == Init /\ [][NextOCO]_vars

------------------------------------------------------------------------------
(* The construction of an order: Order(...), then add_leg and duplicate calls *)

\* the asset arguments of add_leg: a symbol string, an Asset object, None
SymbolArg(sym) == [kind |-> "symbol", symbol |-> sym, asset |-> Asset(sym)]

AssetArg(asset) == [kind |-> "asset", symbol |-> asset.symbol, asset |-> asset]

NoneArg == [kind |-> "none", symbol |-> "", asset |-> Asset("")]

AssetArgs == {SymbolArg("AAA"), SymbolArg("BBB"), AssetArg(BBB), NoneArg}

\* the other arguments: quantity, order_type, price (in cents)
QuantityArgs == {0, 2}

OrderTypeArgs == {"bto", "sto", "STO"}

PriceArgs == {None, Some(500)}

\* Leg objects built by the caller and passed as add_leg(leg=...)
LegArgs ==
    { Leg(AAA, 1, "bto", Some(500)), Leg(BBB, 1, "sto", Some(500)),
      Leg(Asset("BBB"), 1, "bto", None) }

\* the arguments of duplicate
TimesArgs == {2, 3}

\* the order under construction after a call: what the call was and left
Built(r, op, arg) ==
    [order |-> r.order, trail_is_batched |-> r.trail_is_batched, err |-> r.err,
     op |-> op, arg |-> arg, pre |-> ob.order, calls |-> Append(ob.calls, op)]

\* Order(price=price, condition=condition, trail=trail): no legs yet
InitOrders ==
    /\ \E price \in {None, Some(0)}, condition \in {"limit", "trailing_stop"} :
         ob = [order |-> Order(0, <<>>, price, condition, 10, FALSE),
               trail_is_batched |-> FALSE, err |-> "", op |-> "Order",
               arg |-> NoneArg, pre |-> Order(0, <<>>, price, condition, 10, FALSE),
               calls |-> <<>>]
    /\ account = Idle /\ orders = Idle /\ oco = Idle /\ quotes = Idle
    /\ last = Idle /\ steps = Idle
    /\ mm = Idle /\ opt = Idle /\ feed = Idle

\* order.add_leg(asset=, quantity=, order_type=, price=)
DoAddLegArgs(asset, quantity, order_type, price) ==
    /\ Len(ob.calls) < MaxOrderCalls
    /\ ob' = Built(AddLegArgs(ob.order, ob.trail_is_batched, asset, quantity,
                              order_type, price),
                   "add_leg", asset)
    /\ UNCHANGED <<account, orders, oco, quotes, last, steps, mm, opt, feed>>

\* order.add_leg(leg=leg)
DoAddLegObject(leg) ==
    /\ Len(ob.calls) < MaxOrderCalls
    /\ ob' = Built(AddLegObject(ob.order, ob.trail_is_batched, leg),
                   "add_leg", AssetArg(leg.asset))
    /\ UNCHANGED <<account, orders, oco, quotes, last, steps, mm, opt, feed>>

\* order.duplicate(times)
DoDuplicate(times) ==
    /\ Len(ob.calls) < MaxOrderCalls
    /\ ob' = Built([order |-> Duplicate(ob.order, times),
                    trail_is_batched |-> ob.trail_is_batched, err |-> ""],
                   "duplicate", NoneArg)
    /\ UNCHANGED <<account, orders, oco, quotes, last, steps, mm, opt, feed>>

NextOrders ==
    \/ \E asset \in AssetArgs, quantity \in QuantityArgs,
          order_type \in OrderTypeArgs, price \in PriceArgs :
         DoAddLegArgs(asset, quantity, order_type, price)
    \/ \E leg \in LegArgs : DoAddLegObject(leg)
    \/ \E times \in TimesArgs : DoDuplicate(times)

SpecOrders == InitOrders /\ [][NextOrders]_vars

------------------------------------------------------------------------------
(* get_maintenance_margin(strategies=..., quote_adapter=...) on its own: the *)
(* strategies are passed by the caller, prices and strikes are in cents      *)

\* options on XYZ: puts struck at 100.00 and 95.00, calls at 100.00 and 105.00
P100 == Put("XYZ250117P00100000", "XYZ", 10000)

P95 == Put("XYZ250117P00095000", "XYZ", 9500)

C100 == Call("XYZ250117C00100000", "XYZ", 10000)

C105 == Call("XYZ250117C00105000", "XYZ", 10500)

\* the strategy objects get_maintenance_margin reads: a single asset ...
AssetStrategy(asset, quantity) ==
    [strategy_type |-> "asset", asset |-> asset, quantity |-> quantity,
     direction |-> IF quantity > 0 THEN "long" ELSE "short",
     spread_type |-> "", option_type |-> "", sell_option |-> asset, buy_option |-> asset]

\* ... a covered position ...
CoveredStrategy(asset, option) ==
    [strategy_type |-> "covered", asset |-> asset, quantity |-> 1,
     direction |-> "long",
     spread_type |-> "", option_type |-> "", sell_option |-> option, buy_option |-> option]

\* ... a vertical spread of two options of the same type
SpreadStrategy(spread_type, option_type, sell_option, buy_option) ==
    [strategy_type |-> "spread", asset |-> sell_option, quantity |-> 1,
     direction |-> "short",
     spread_type |-> spread_type, option_type |-> option_type,
     sell_option |-> sell_option, buy_option |-> buy_option]

\* the shapes of the model: one of each kind the engine knows, and a short
\* position on a plain asset, which it does not know
Strategies ==
    { AssetStrategy(BBB, 1), AssetStrategy(BBB, -1),
      CoveredStrategy(BBB, C100),
      SpreadStrategy("debit", "put", P95, P100),
      SpreadStrategy("credit", "put", P100, P95),
      SpreadStrategy("credit", "call", C100, C105),
      AssetStrategy(P100, -1), AssetStrategy(P100, -2),
      AssetStrategy(C100, -1),
      AssetStrategy(AAA, -1) }

\* the quotes the formulas read: None is a missing quote or a quote without
\* a price
MarginQuotes ==
    { [sym \in {"BBB", "XYZ", P100.symbol, P95.symbol, C100.symbol} |->
          CASE sym = "BBB"       -> b
            [] sym = "XYZ"       -> u
            [] sym = P100.symbol -> p
            [] sym = P95.symbol  -> r
            [] OTHER             -> c] :
      b \in {None, Some(1050)},
      u \in {None, Some(9500), Some(10500), Some(12000)},
      p \in {None, Some(200), Some(800)},
      r \in {None, Some(100)},
      c \in {None, Some(200)} }

\* the arguments of a call: up to MaxStrategies strategies and the quotes
InitMargin ==
    /\ \E n \in 0..MaxStrategies :
         \E strategies \in [1..n -> Strategies], q \in MarginQuotes :
            mm = [strategies |-> strategies, quotes |-> q, called |-> FALSE,
                  result |-> [err |-> "", value |-> 0]]
    /\ account = Idle /\ orders = Idle /\ oco = Idle /\ quotes = Idle
    /\ last = Idle /\ steps = Idle
    /\ ob = Idle /\ opt = Idle /\ feed = Idle

\* get_maintenance_margin(strategies=mm.strategies, quote_adapter=mm.quotes)
DoGetMaintenanceMargin ==
    /\ ~mm.called
    /\ mm' = [mm EXCEPT !.called = TRUE,
                        !.result = MarginLoop(mm.strategies, mm.quotes, 1, 0)]
    /\ UNCHANGED <<account, orders, oco, quotes, last, steps, ob, opt, feed>>

NextMargin == DoGetMaintenanceMargin

SpecMargin == InitMargin /\ [][NextMargin]_vars

(******************************************************************************)
(* Option symbols: Option.__init__ (assets.py).  A symbol is the sequence of  *)
(* its characters; a strike is an integer count of thousandths; a date is a   *)
(* record of year, month and day (the text 'YYYY-MM-DD').                     *)
(******************************************************************************)

\* s[::-1]
RECURSIVE Reverse(_)
Reverse(s) == IF s = <<>> THEN <<>> ELSE Append(Reverse(Tail(s)), Head(s))

\* the decimal digit characters
DigitChar(n) ==
    CASE n = 0 -> "0" [] n = 1 -> "1" [] n = 2 -> "2" [] n = 3 -> "3"
      [] n = 4 -> "4" [] n = 5 -> "5" [] n = 6 -> "6" [] n = 7 -> "7"
      [] n = 8 -> "8" [] OTHER -> "9"

DigitVal(c) == CHOOSE n \in 0..9 : DigitChar(n) = c

\* str(n) of an integer n >= 0
RECURSIVE Str(_)
Str(n) == IF n < 10 THEN <<DigitChar(n)>>
          ELSE Append(Str(n \div 10), DigitChar(n % 10))

\* s.zfill(width): zeros on the left up to width, never a cut
RECURSIVE Zfill(_, _)
Zfill(s, width) == IF Len(s) >= width THEN s ELSE Zfill(<<"0">> \o s, width)

\* float(s) of a sequence of digits (an integer value)
RECURSIVE ParseDigits(_)
ParseDigits(s) ==
    IF s = <<>> THEN 0
    ELSE 10 * ParseDigits(SubSeq(s, 1, Len(s) - 1)) + DigitVal(s[Len(s)])

\* round(strike, 2), in hundredths, of a strike of m thousandths: the nearest
\* hundredth (of an exact half, m % 10 = 5, the binary value of the float
\* decides; StrikeArgs holds none)
Round2(m) == (m + 5) \div 10

\* the hundredths h, among those of StrikeArgs after rounding, whose float
\* product h/100 * 1000 falls just short of the integer 10 h
\* (2.01 * 1000 = 2009.9999999999998)
ProductFallsShort(h) == h \in {201, 203}

\* int(round(strike, 2) * 1000)
StrikeField(m) ==
    LET h == Round2(m) IN IF ProductFallsShort(h) THEN 10 * h - 1 ELSE 10 * h

\* arrow.get(expiration_date).format('YYMMDD')
FormatYYMMDD(d) ==
    Zfill(Str(d.year % 100), 2) \o Zfill(Str(d.month), 2) \o Zfill(Str(d.day), 2)

\* arrow.get(text, 'YYMMDD').format('YYYY-MM-DD'): a two-digit year above 68
\* is read in the 1900s, the others in the 2000s
ParseYYMMDD(s) ==
    LET yy == ParseDigits(SubSeq(s, 1, 2))
    IN  [year  |-> IF yy > 68 THEN 1900 + yy ELSE 2000 + yy,
         month |-> ParseDigits(SubSeq(s, 3, 4)),
         day   |-> ParseDigits(SubSeq(s, 5, 6))]

\* option_type[0], upper-cased
TypeChar(option_type) == IF option_type = "call" THEN "C" ELSE "P"

OptionObject(symbol, underlying, option_type, strike, expiration_date) ==
    [err |-> "", symbol |-> symbol, underlying |-> underlying,
     option_type |-> option_type, strike |-> strike,
     expiration_date |-> expiration_date]

OptionError(msg) ==
    [err |-> msg, symbol |-> <<>>, underlying |-> <<>>, option_type |-> "",
     strike |-> 0, expiration_date |-> [year |-> 0, month |-> 0, day |-> 0]]

\* Option(underlying=..., option_type=..., strike=..., expiration_date=...):
\* the symbol is built from the strike rounded to hundredths, the strike is
\* stored as given
OptionFromFields(underlying, option_type, strike, expiration_date) ==
    IF option_type \notin {"call", "put"} THEN
        OptionError("Option(Asset): option_type is required")
    ELSE IF strike <= 0 THEN
        OptionError("Option(Asset): strike is required and must be > 0.0")
    ELSE OptionObject(underlying \o FormatYYMMDD(expiration_date)
                         \o <<TypeChar(option_type)>>
                         \o Zfill(Str(StrikeField(strike)), 8),
                      underlying, option_type, strike, expiration_date)

\* Option(symbol=...): the symbol is read from its right end
OptionFromSymbol(symbol) ==
    LET r == Reverse(symbol)
    IN  OptionObject(symbol,
                     Reverse(SubSeq(r, 16, Len(r))),
                     IF r[9] = "C" THEN "call" ELSE "put",
                     ParseDigits(Reverse(SubSeq(r, 1, 8))),
                     ParseYYMMDD(Reverse(SubSeq(r, 10, 15))))

(******************************************************************************)
(* Option construction on its own: an option is built from fields and read    *)
(* back from its symbol, or built from a symbol and rebuilt from its fields   *)
(******************************************************************************)

UnderlyingArgs == {<<"X", "Y", "Z">>, <<"A", "B">>}

DateArgs == { [year |-> 2025, month |-> 1, day |-> 17],
              [year |-> 2026, month |-> 12, day |-> 5] }

\* strikes in thousandths: 0 (refused), 2.01, 12.34, 12.346, 95, 100
StrikeArgs == {0, 2010, 12340, 12346, 95000, 100000}

\* symbols in the layout underlying, YYMMDD, C or P, eight digits
SymbolArgs ==
    { u \o d \o <<k>> \o s :
        u \in UnderlyingArgs,
        d \in { <<"2", "5", "0", "1", "1", "7">>, <<"2", "6", "1", "2", "0", "5">> },
        k \in {"C", "P"},
        s \in { <<"0", "0", "0", "0", "2", "0", "1", "0">>,
                <<"0", "0", "0", "1", "2", "3", "4", "0">>,
                <<"0", "0", "0", "1", "2", "3", "4", "6">>,
                <<"0", "0", "1", "0", "0", "0", "0", "0">> } }

InitSymbol ==
    /\ \/ \E u \in UnderlyingArgs, t \in {"call", "put"}, m \in StrikeArgs,
             d \in DateArgs :
             opt = [from |-> "fields",
                    given |-> OptionObject(<<>>, u, t, m, d),
                    first |-> None, second |-> None]
       \/ \E s \in SymbolArgs :
             opt = [from |-> "symbol",
                    given |-> OptionObject(s, <<>>, "", 0,
                                           [year |-> 0, month |-> 0, day |-> 0]),
                    first |-> None, second |-> None]
    /\ account = Idle /\ orders = Idle /\ oco = Idle /\ quotes = Idle
    /\ last = Idle /\ steps = Idle
    /\ ob = Idle /\ mm = Idle /\ feed = Idle

\* Option(underlying, option_type, strike, expiration_date) on the given
\* fields, or on the fields of the option read from the given symbol
DoOptionFromFields ==
    /\ \/ /\ opt.from = "fields" /\ IsNone(opt.first)
          /\ opt' = [opt EXCEPT !.first =
                        Some(OptionFromFields(opt.given.underlying,
                                              opt.given.option_type,
                                              opt.given.strike,
                                              opt.given.expiration_date))]
       \/ /\ opt.from = "symbol" /\ ~IsNone(opt.first) /\ IsNone(opt.second)
          /\ opt' = [opt EXCEPT !.second =
                        Some(OptionFromFields(Val(opt.first).underlying,
                                              Val(opt.first).option_type,
                                              Val(opt.first).strike,
                                              Val(opt.first).expiration_date))]
    /\ UNCHANGED <<account, orders, oco, quotes, last, steps, ob, mm, feed>>

\* Option(symbol) on the given symbol, or on the symbol of the option built
\* from the given fields
DoOptionFromSymbol ==
    /\ \/ /\ opt.from = "symbol" /\ IsNone(opt.first)
          /\ opt' = [opt EXCEPT !.first = Some(OptionFromSymbol(opt.given.symbol))]
       \/ /\ opt.from = "fields" /\ ~IsNone(opt.first) /\ IsNone(opt.second)
          /\ Val(opt.first).err = ""
          /\ opt' = [opt EXCEPT !.second =
                        Some(OptionFromSymbol(Val(opt.first).symbol))]
    /\ UNCHANGED <<account, orders, oco, quotes, last, steps, ob, mm, feed>>

NextSymbol == DoOptionFromFields \/ DoOptionFromSymbol

SpecSymbol == InitSymbol /\ [][NextSymbol]_vars

(******************************************************************************)
(* The callback-fed quote cache: SchwabCallbackQuoteAdapter                   *)
(* (adapters/quotes/SchwabQuoteAdapter.py).  Callback threads run             *)
(* on_market_data, a reader thread runs get_quote, get_options and            *)
(* get_expiration_dates; each statement that touches the shared dictionaries  *)
(* or the lock is one step.                                                   *)
(******************************************************************************)

Writers == {"w1", "w2"}

Readers == {"r1"}

NoThread == "none"

FeedSymbols == {"AAA", P100.symbol}

Services == {"LEVELONE_EQUITIES", "LEVELONE_OPTIONS", "LEVELONE_FUTURES",
             "CHART_EQUITY"}

\* not service.startswith("LEVELONE")
IsLevelOne(service) ==
    service \in {"LEVELONE_EQUITIES", "LEVELONE_OPTIONS", "LEVELONE_FUTURES"}

\* the quote of the n-th message of the stream: its last price and its bid
TickPrice(n) == 1000 + 10 * n

TickBid(n) == TickPrice(n) - 10

\* a stored quote object; cb names the callback that built it
FeedQuote(cb, quote_type, symbol, price, bid, underlying, expiration_date) ==
    [cb |-> cb, quote_type |-> quote_type, symbol |-> symbol, price |-> price,
     bid |-> bid, underlying |-> underlying,
     expiration_date |-> expiration_date]

\* quote_factory_from_service: an EquityQuote, an OptionQuote (its asset must
\* decode as an option, or the constructor raises) or a plain Quote without
\* quote_type; None stands for the exception
QuoteFactoryFromService(cb, service, symbol, price, bid) ==
    CASE service = "LEVELONE_EQUITIES" ->
            Some(FeedQuote(cb, "equity", symbol, price, bid, "", ""))
      [] service = "LEVELONE_OPTIONS" ->
            IF symbol = P100.symbol
            THEN Some(FeedQuote(cb, "option", symbol, price, bid,
                                P100.underlying, "2025-01-17"))
            ELSE None
      [] OTHER ->
            IF symbol = P100.symbol
            THEN Some(FeedQuote(cb, "", symbol, price, bid,
                                P100.underlying, "2025-01-17"))
            ELSE Some(FeedQuote(cb, "", symbol, price, bid, "", ""))

\* mutant: the lock never makes a thread wait
CanAcquire_Always(lock, t) == TRUE

\* threading.RLock: free, or already held by the calling thread
CanAcquire(lock, t) == lock = NoThread \/ lock = t

\* the end of a with self._lock block
Release(lock, t) == IF lock = t THEN NoThread ELSE lock

\* self._option_quotes.get(sym) or self._equity_quotes.get(sym)
\*     or self._other_quotes.get(sym)
FeedGetQuote(f, sym) ==
    IF ~IsNone(f.option_quotes[sym]) THEN f.option_quotes[sym]
    ELSE IF ~IsNone(f.equity_quotes[sym]) THEN f.equity_quotes[sym]
    ELSE f.other_quotes[sym]

\* list(self._option_quotes.values()), as the set of its elements
OptionValues(f) ==
    { Val(f.option_quotes[s]) : s \in { x \in FeedSymbols : ~IsNone(f.option_quotes[x]) } }

\* the filter of get_options on the copied list
FilterOptions(opts, underlying) ==
    IF IsNone(underlying) THEN opts
    ELSE { oq \in opts : oq.underlying = Val(underlying) }

\* get_expiration_dates: the dates of the options get_options returns
ExpirationDates(opts) == { oq.expiration_date : oq \in opts }

IdleThread ==
    [pc |-> "idle", op |-> "", q |-> None, timestamp |-> 0, arg |-> None,
     copy |-> {}, result |-> None]

InitFeed ==
    /\ feed = [lock |-> NoThread,
               option_quotes |-> [s \in FeedSymbols |-> None],
               equity_quotes |-> [s \in FeedSymbols |-> None],
               other_quotes  |-> [s \in FeedSymbols |-> None],
               last_ts       |-> [s \in FeedSymbols |-> None],
               thread        |-> [t \in Writers \cup Readers |-> IdleThread],
               callbacks     |-> 0,
               built         |-> {}]
    /\ account = Idle /\ orders = Idle /\ oco = Idle /\ quotes = Idle
    /\ last = Idle /\ steps = Idle
    /\ ob = Idle /\ mm = Idle /\ opt = Idle

FeedFrame == UNCHANGED <<account, orders, oco, quotes, last, steps, ob, mm, opt>>

\* on_market_data up to the with block: the early returns, then the quote is
\* built from the message; an exception while building ends the callback
OnMarketDataBuild(t, service, symbol) ==
    /\ feed.thread[t].pc = "idle"
    /\ feed.callbacks < MaxCallbacks
    /\ LET cb == feed.callbacks + 1
           q  == QuoteFactoryFromService(cb, service, symbol, TickPrice(cb), TickBid(cb))
       IN  IF ~IsLevelOne(service) \/ IsNone(q)
           THEN feed' = [feed EXCEPT !.callbacks = cb]
           ELSE feed' = [feed EXCEPT !.callbacks = cb,
                                     !.built = @ \cup {Val(q)},
                                     !.thread[t] = [IdleThread EXCEPT
                                         !.pc = "acquire",
                                         !.op = "on_market_data",
                                         !.q = q, !.timestamp = cb]]
    /\ FeedFrame

\* with self._lock:
OnMarketDataAcquire(t) ==
    /\ feed.thread[t].pc = "acquire"
    /\ CanAcquire(feed.lock, t)
    /\ feed' = [feed EXCEPT !.lock = t, !.thread[t].pc = "store_quote"]
    /\ FeedFrame

\* the quote is stored in the dictionary of its quote_type
OnMarketDataStoreQuote(t) ==
    /\ feed.thread[t].pc = "store_quote"
    /\ LET q == feed.thread[t].q
           qt == Val(q).quote_type
           sym == Val(q).symbol
       IN  feed' = [feed EXCEPT
                      !.option_quotes[sym] = IF qt = "option" THEN q ELSE @,
                      !.equity_quotes[sym] = IF qt = "equity" THEN q ELSE @,
                      !.other_quotes[sym]  = IF qt \notin {"option", "equity"} THEN q ELSE @,
                      !.thread[t].pc = "store_ts"]
    /\ FeedFrame

\* self._last_ts[sym] = data.get("timestamp"), and the with block ends
OnMarketDataStoreTs(t) ==
    /\ feed.thread[t].pc = "store_ts"
    /\ feed' = [feed EXCEPT
                  !.last_ts[Val(feed.thread[t].q).symbol] = Some(feed.thread[t].timestamp),
                  !.lock = Release(feed.lock, t),
                  !.thread[t] = IdleThread]
    /\ FeedFrame

\* a reader calls get_quote(sym), get_options(underlying_asset) or
\* get_expiration_dates(underlying_asset) and reaches the with block
ReadBegin(t, op, arg) ==
    /\ feed.thread[t].pc = "idle"
    /\ feed' = [feed EXCEPT !.thread[t] =
                   [IdleThread EXCEPT !.pc = "acquire", !.op = op, !.arg = arg]]
    /\ FeedFrame

ReadAcquire(t) ==
    /\ feed.thread[t].pc = "acquire"
    /\ CanAcquire(feed.lock, t)
    /\ feed' = [feed EXCEPT !.lock = t, !.thread[t].pc = "locked"]
    /\ FeedFrame

\* get_quote: the three lookups and the return, inside the with block
GetQuoteRead(t) ==
    /\ feed.thread[t].pc = "locked" /\ feed.thread[t].op = "get_quote"
    /\ feed' = [feed EXCEPT
                  !.lock = Release(feed.lock, t),
                  !.thread[t].pc = "idle",
                  !.thread[t].result = FeedGetQuote(feed, Val(feed.thread[t].arg))]
    /\ FeedFrame

\* get_options: the list is copied inside the with block
GetOptionsCopy(t) ==
    /\ feed.thread[t].pc = "locked" /\ feed.thread[t].op # "get_quote"
    /\ feed' = [feed EXCEPT
                  !.lock = Release(feed.lock, t),
                  !.thread[t].pc = "filter",
                  !.thread[t].copy = OptionValues(feed)]
    /\ FeedFrame

\* get_options: the copy is filtered outside the with block;
\* get_expiration_dates collects the dates of what get_options returned
GetOptionsFilter(t) ==
    /\ feed.thread[t].pc = "filter"
    /\ LET opts == FilterOptions(feed.thread[t].copy, feed.thread[t].arg)
       IN  feed' = [feed EXCEPT
                      !.thread[t].pc = "idle",
                      !.thread[t].copy = {},
                      !.thread[t].result =
                          IF feed.thread[t].op = "get_options" THEN Some(opts)
                          ELSE Some(ExpirationDates(opts))]
    /\ FeedFrame

NextFeed ==
    \/ \E t \in Writers, service \in Services, symbol \in FeedSymbols :
          OnMarketDataBuild(t, service, symbol)
    \/ \E t \in Writers : OnMarketDataAcquire(t)
    \/ \E t \in Writers : OnMarketDataStoreQuote(t)
    \/ \E t \in Writers : OnMarketDataStoreTs(t)
    \/ \E t \in Readers, sym \in FeedSymbols : ReadBegin(t, "get_quote", Some(sym))
    \/ \E t \in Readers, op \in {"get_options", "get_expiration_dates"},
          u \in {None, Some("XYZ")} : ReadBegin(t, op, u)
    \/ \E t \in Readers : ReadAcquire(t)
    \/ \E t \in Readers : GetQuoteRead(t)
    \/ \E t \in Readers : GetOptionsCopy(t)
    \/ \E t \in Readers : GetOptionsFilter(t)

SpecFeed == InitFeed /\ [][NextFeed]_vars

(******************************************************************************)
(* A second book on the same state machine: an OCO group of a buy limit and   *)
(* a percent trailing stop that sells, option legs (multiplier 100), and a    *)
(* flat trailing stop that buys; the option is quoted like the stocks         *)
(******************************************************************************)

DeskSymbols == Symbols \cup {P100.symbol}

Desk ==
    << Order(1, <<Leg(AAA, 1, "bto", None)>>, Some(1000), "limit", 0, FALSE),
       Order(2, <<Leg(BBB, 2, "stc", None)>>, None, "trailing_stop", 10, TRUE),
       Order(3, <<Leg(P100, 1, "bto", None)>>, None, "market", 0, FALSE),
       Order(4, <<Leg(P100, 1, "stc", None), Leg(BBB, 1, "bto", None)>>,
             None, "market", 0, FALSE),
       Order(5, <<Leg(BBB, 2, "bto", None)>>, None, "market", 0, FALSE),
       Order(6, <<Leg(AAA, 1, "bto", None)>>, None, "trailing_stop", 10, FALSE) >>

InitDesk ==
    /\ account = [cash |-> InitialCash, positions |-> <<>>, ledger |-> <<>>,
                  maintenance_margin |-> 0]
    /\ orders = Desk
    /\ oco = [orders |-> <<1, 2>>, is_active |-> TRUE]
    /\ quotes = [s \in DeskSymbols |-> Some(1050)]
    /\ steps = 0
    /\ last = Record("init", 0, "", FALSE, FALSE, 0, 0, None, <<>>)
    /\ ob = Idle /\ mm = Idle /\ opt = Idle /\ feed = Idle

NextDesk ==
    \/ \E o \in DOMAIN orders : DoFillOrder(o)
    \/ DoEvaluate
    \/ \E s \in DeskSymbols, v \in {None} \cup {Some(p) : p \in Prices} : SetQuote(s, v)

SpecDesk == InitDesk /\ [][NextDesk]_vars

------------------------------------------------------------------------------
(* Trailing stops met for the first time: fill_order.py 38-54 on orders      *)
(* built by Order.__init__ with trail > 0 and trail_best left at None        *)

\* a book of fresh trailing stops, percent and flat, on one leg and on a
\* switch (buy AAA, sell BBB to close), behind an order that buys the BBB
\* share the switch gives up
Trails ==
    << Order(1, <<Leg(BBB, 1, "bto", None)>>, None, "market", 0, FALSE),
       Order(2, <<Leg(AAA, 1, "bto", None), Leg(BBB, 1, "stc", None)>>,
             None, "trailing_stop", 10, TRUE),
       Order(3, <<Leg(AAA, 1, "bto", None), Leg(BBB, 1, "stc", None)>>,
             None, "trailing_stop", 10, FALSE),
       Order(4, <<Leg(AAA, 1, "bto", None)>>, None, "trailing_stop", 10, TRUE),
       Order(5, <<Leg(BBB, 1, "stc", None)>>, None, "trailing_stop", 10, FALSE) >>

InitTrail ==
    /\ account = [cash |-> InitialCash, positions |-> <<>>, ledger |-> <<>>,
                  maintenance_margin |-> 0]
    /\ orders = Trails
    /\ oco = [orders |-> <<>>, is_active |-> FALSE]
    /\ quotes = [s \in Symbols |-> Some(1000)]
    /\ steps = 0
    /\ last = Record("init", 0, "", FALSE, FALSE, 0, 0, None, <<>>)
    /\ ob = Idle /\ mm = Idle /\ opt = Idle /\ feed = Idle

NextTrail ==
    \/ \E o \in DOMAIN orders : DoFillOrder(o)
    \/ \E s \in Symbols, v \in {None} \cup {Some(p) : p \in Prices} : SetQuote(s, v)

SpecTrail == InitTrail /\ [][NextTrail]_vars

------------------------------------------------------------------------------
(* Vocabulary of the properties *)

\* the last operation was fill_order on an order o, called as orders[o] was before
IsFill == last.op = "fill_order"

IsEvaluate == last.op = "evaluate"

\* the order the last fill_order was called with, before and after the call
PreOrder == last.pre_orders[last.order]

PostOrder == orders[last.order]

\* the summed magnitude of the positions on the leg's instrument (by symbol)
\* whose sign is opposite to the leg's
OpenQuantity(positions, leg) ==
    LET idx == { i \in 1..Len(positions) :
                    /\ positions[i].asset.symbol = leg.asset.symbol
                    /\ positions[i].quantity * leg.quantity < 0 }
        mag[S \in SUBSET idx] ==
            IF S = {} THEN 0
            ELSE LET i == CHOOSE j \in S : TRUE
                 IN Abs(positions[i].quantity) + mag[S \ {i}]
    IN mag[idx]

\* a valid leg: an opening leg, or a closing leg with sufficient open quantity
LegValid(positions, leg) ==
    \/ leg.order_type \in {"bto", "sto"}
    \/ /\ leg.order_type \in {"btc", "stc"}
       /\ OpenQuantity(positions, leg) >= Abs(leg.quantity)

LegsValid(positions, order) ==
    \A k \in 1..Len(order.legs) : LegValid(positions, order.legs[k])

------------------------------------------------------------------------------
(* C1: a market order with valid legs, on a quote source that holds a quote  *)
(* for every leg, is 'filled' when its first fill_order call ends.           *)
(* fill_order recomputes the maintenance margin before it marks the order:   *)
(* when that raises, the legs are applied and the order is still 'open'.     *)
C1_MarketOrderFills ==
    ( /\ IsFill
      /\ PreOrder.status = "open"
      /\ PreOrder.condition = "market"
      /\ last.priced
      /\ LegsValid(last.pre_account.positions, PreOrder) )
    => PostOrder.status = "filled"

------------------------------------------------------------------------------
(* C2: once an order is 'filled' or 'canceled' its status never changes,     *)
(* whatever is called next, fill_order on that very order included.          *)
C2_TerminalStatusStays ==
    \A o \in DOMAIN orders :
        last.pre_orders[o].status \in {"filled", "canceled"}
        => orders[o].status = last.pre_orders[o].status

------------------------------------------------------------------------------
(* C3 as the spec states it: when the fill test fails the order stays open   *)
(* and positions, cash, ledger and maintenance_margin are all unchanged.     *)
C3_NoFillLeavesAccount ==
    ( /\ IsFill
      /\ last.priced
      /\ ~last.passed
      /\ last.err = ""
      /\ PreOrder.status = "open" )
    => /\ PostOrder.status = "open"
       /\ account.positions = last.pre_account.positions
       /\ account.cash = last.pre_account.cash
       /\ account.ledger = last.pre_account.ledger
       /\ account.maintenance_margin = last.pre_account.maintenance_margin

\* the margin of the account before the call, were it recomputed for its
\* pruned positions under the quotes of the call
PreMargin == GetMaintenanceMargin(Prune(last.pre_account.positions), last.pre_quotes)

(* C3, amended: when the fill test fails in fill_order the order's status is *)
(* unchanged, cash and ledger are unchanged, positions lose only the         *)
(* zero-quantity positions an aborted earlier call left, and                 *)
(* maintenance_margin is recomputed for the surviving positions under the    *)
(* current quotes (the call raises, leaving it as it was, when that margin   *)
(* cannot be computed); of the order only trail_best and price may differ.   *)
C3_NoFillFrame ==
    ( IsFill /\ last.priced /\ ~last.passed )
    => /\ PostOrder.status = PreOrder.status
       /\ [PostOrder EXCEPT !.trail_best = None, !.price = None]
            = [PreOrder EXCEPT !.trail_best = None, !.price = None]
       /\ PreOrder.condition # "trailing_stop" => PostOrder = PreOrder
       /\ account.cash = last.pre_account.cash
       /\ account.ledger = last.pre_account.ledger
       /\ account.positions = Prune(last.pre_account.positions)
       /\ last.err = "" <=> PreMargin.err = ""
       /\ account.maintenance_margin =
            IF PreMargin.err = "" THEN PreMargin.value
            ELSE last.pre_account.maintenance_margin

\* a fill test has failed and the call has stored a margin that a quote move
\* had changed
C3_Witness ==
    /\ IsFill /\ last.priced /\ ~last.passed /\ last.err = ""
    /\ account.maintenance_margin # last.pre_account.maintenance_margin

------------------------------------------------------------------------------
\* the account fill_order would leave had it applied legs 1..n of the order
\* it was last called with, and nothing else
LegsApplied(n) ==
    ProcessLegs(last.pre_account,
                [PreOrder EXCEPT !.legs = SubSeq(@, 1, n)],
                LegPrices(PreOrder, last.pre_quotes), 1).account

(* C4: when fill_order aborts while processing leg k, the account holds      *)
(* exactly the effects of legs 1..k-1 (cash, positions, ledger) and nothing  *)
(* of leg k, and the order is still 'open'.  The code subtracts the leg's    *)
(* cash before it checks that a closing leg can be closed.                   *)
C4_AbortKeepsOnlyEarlierLegs ==
    ( IsFill /\ last.failed_leg > 0 /\ PreOrder.status = "open" )
    => /\ account = LegsApplied(last.failed_leg - 1)
       /\ PostOrder.status = "open"

------------------------------------------------------------------------------
\* the closing legs of the order last filled
ClosingLegs == { k \in 1..Len(PreOrder.legs) : PreOrder.legs[k].order_type \in {"btc", "stc"} }

\* those of them the account, as it was before the call, could not close
ShortLegs ==
    { k \in ClosingLegs :
        OpenQuantity(last.pre_account.positions, PreOrder.legs[k])
            < Abs(PreOrder.legs[k].quantity) }

(* C5: a closing leg is filled only if the positions on its instrument with *)
(* the opposite sign sum to at least its magnitude; otherwise fill_order     *)
(* raises at that leg and the order is not marked filled; a closing leg of   *)
(* exactly the open quantity leaves none of those positions.  (The           *)
(* legs of an order are on distinct instruments, so the open quantity a leg  *)
(* meets is the one the account had when the call began.)                    *)
C5_ClosingNeedsOpenQuantity ==
    ( IsFill /\ last.passed )
    => /\ (last.err = "" /\ PostOrder.status = "filled") => ShortLegs = {}
       /\ ShortLegs # {}
            => /\ last.err # ""
               /\ last.failed_leg = CHOOSE k \in ShortLegs : \A j \in ShortLegs : k <= j
               /\ PostOrder.status = PreOrder.status
               /\ Len(account.ledger)
                    = Len(last.pre_account.ledger) + last.failed_leg - 1
       /\ last.err = ""
            => \A k \in ClosingLegs :
                 OpenQuantity(last.pre_account.positions, PreOrder.legs[k])
                     = Abs(PreOrder.legs[k].quantity)
                 => \A i \in 1..Len(account.positions) :
                      account.positions[i].asset.symbol = PreOrder.legs[k].asset.symbol
                      => account.positions[i].quantity * PreOrder.legs[k].quantity > 0

\* 2 shares were open and the closing leg for 2 has filled and left no position
C5_Witness ==
    /\ IsFill /\ last.order = 5 /\ last.err = ""
    /\ PreOrder.status = "open" /\ PostOrder.status = "filled"
    /\ Len(last.pre_account.positions) = 1
    /\ last.pre_account.positions[1].quantity = 2
    /\ account.positions = <<>>

------------------------------------------------------------------------------
\* the siblings of the group with a given status
Siblings(ords, status) ==
    { i \in DOMAIN ords : InGroup(oco, i) /\ ords[i].status = status }

(* C6: from a group whose orders are all open, after any sequence of         *)
(* evaluate calls at most one sibling is 'filled', and as soon as one is,    *)
(* every other sibling is 'canceled' and is_active is false.  Checked under  *)
(* SpecOCO, where only evaluate (and the quote feed) acts on the group.      *)
C6_OneFillCancelsTheRest ==
    /\ Cardinality(Siblings(orders, "filled")) <= 1
    /\ Siblings(orders, "filled") # {}
         => /\ Siblings(orders, "open") = {}
            /\ \A i \in DOMAIN orders :
                 (InGroup(oco, i) /\ i \notin Siblings(orders, "filled"))
                 => orders[i].status = "canceled"
            /\ ~oco.is_active

\* an evaluate call has just filled one sibling while the other was open
C6_Witness ==
    /\ IsEvaluate
    /\ Siblings(last.pre_orders, "open") = {1, 2}
    /\ Cardinality(Siblings(orders, "filled")) = 1
    /\ Cardinality(Siblings(orders, "canceled")) = 1

------------------------------------------------------------------------------
(* C7: evaluate on a group whose is_active is false returns True without     *)
(* invoking fill_order: account, orders (status and trailing-stop state) and *)
(* the group are as they were.                                               *)
C7_InactiveGroupIsNoOp ==
    ( IsEvaluate /\ ~last.pre_oco.is_active )
    => /\ last.ret = Some(TRUE)
       /\ last.err = ""
       /\ last.invoked = <<>>
       /\ account = last.pre_account
       /\ orders = last.pre_orders
       /\ oco = last.pre_oco

C7_Witness ==
    /\ IsEvaluate
    /\ ~last.pre_oco.is_active
    /\ last.ret = Some(TRUE)

------------------------------------------------------------------------------
\* the group is finished: a sibling has filled, or no sibling remains open
Finished ==
    \/ Siblings(orders, "filled") # {}
    \/ Siblings(orders, "open") = {}

(* C8: evaluate returns True exactly when the group is finished (a sibling   *)
(* has filled, or none remains open), and False otherwise.  The code returns *)
(* True only when is_active is false or this very pass filled a sibling.     *)
C8_ReturnsTrueIffFinished ==
    ( IsEvaluate /\ last.err = "" )
    => ( last.ret = Some(TRUE) <=> Finished )

------------------------------------------------------------------------------
\* the siblings the last evaluate pass filled
FilledInPass ==
    { i \in DOMAIN orders :
        /\ InGroup(oco, i)
        /\ last.pre_orders[i].status # "filled"
        /\ orders[i].status = "filled" }

------------------------------------------------------------------------------
(* C10: a limit order fills in a fill_order evaluation if and only if        *)
(* order.price is set and order_price, the sum over the legs of              *)
(* |quantity| x signed per-unit estimate, is <= order.price: the legs are    *)
(* processed exactly then, and a call that returns leaves the order filled   *)
(* exactly then.  With limit 10.00, 10.50 leaves it open and 9.90 fills it.  *)
C10_LimitFillsIffAtOrBelowPrice ==
    ( IsFill /\ last.priced /\ PreOrder.condition = "limit" )
    => /\ last.order_price = OrderPrice(PreOrder.legs, last.pre_quotes, 1)
       /\ last.passed
            <=> (~IsNone(PreOrder.price) /\ last.order_price <= Val(PreOrder.price))
       /\ (last.passed /\ last.err = "") => PostOrder.status = "filled"
       /\ ~last.passed
            => /\ PostOrder = PreOrder
               /\ account.cash = last.pre_account.cash
               /\ account.ledger = last.pre_account.ledger
       /\ PreOrder.price = Some(1000)
            => /\ last.order_price = 1050 => ~last.passed
               /\ last.order_price = 990 => last.passed

\* the limit order at 10.00 was evaluated at 9.90 and filled: one share bought
C10_Witness ==
    /\ IsFill /\ last.order = 1
    /\ PreOrder.status = "open" /\ PostOrder.status = "filled"
    /\ last.order_price = 990
    /\ account.cash = last.pre_account.cash - 990

------------------------------------------------------------------------------
(* C11: a stop order fills in a fill_order evaluation if and only if         *)
(* order.price is set and order_price >= order.price: the legs are processed *)
(* exactly then, and a call that returns leaves the order filled exactly     *)
(* then; a stop order whose price is unset never fills.                      *)
C11_StopFillsIffAtOrAbovePrice ==
    ( IsFill /\ last.priced /\ PreOrder.condition = "stop" )
    => /\ last.order_price = OrderPrice(PreOrder.legs, last.pre_quotes, 1)
       /\ last.passed
            <=> (~IsNone(PreOrder.price) /\ last.order_price >= Val(PreOrder.price))
       /\ (last.passed /\ last.err = "") => PostOrder.status = "filled"
       /\ ~last.passed
            => /\ PostOrder = PreOrder
               /\ account.cash = last.pre_account.cash
               /\ account.ledger = last.pre_account.ledger
       /\ IsNone(PreOrder.price) => (~last.passed /\ PostOrder.status = "open")

\* the stop order at 10.00 was evaluated at 9.90 and stayed open, then
\* evaluated at 10.00 and filled
C11_Witness ==
    /\ IsFill /\ last.order = 9
    /\ PreOrder.status = "open" /\ PostOrder.status = "filled"
    /\ last.order_price = 1000
    /\ account.cash = InitialCash - 1000

------------------------------------------------------------------------------
RECURSIVE SumLegPrices(_, _)
\* the sum over the legs, from leg k on, of leg.price x |leg.quantity|
SumLegPrices(legs, k) ==
    IF k > Len(legs)
    THEN 0
    ELSE Val(legs[k].price) * Abs(legs[k].quantity) + SumLegPrices(legs, k + 1)

(* C12: for an order built by add_leg calls in which every leg has an        *)
(* explicit price, order.price is the sum over the legs of the signed        *)
(* leg.price x |leg.quantity|; if a leg's price is unset the aggregate is    *)
(* unset.  The code starts from the price the order was constructed with     *)
(* (None by default, and None stays None), and add_leg with keyword          *)
(* arguments adds the price argument as passed, not the signed leg.price.    *)
C12_PriceIsSumOfLegPrices ==
    ( /\ \A i \in 1..Len(ob.calls) : ob.calls[i] = "add_leg"
      /\ Len(ob.order.legs) > 0 )
    => IF \A k \in 1..Len(ob.order.legs) : ~IsNone(ob.order.legs[k].price)
       THEN ob.order.price = Some(SumLegPrices(ob.order.legs, 1))
       ELSE ob.order.price = None

------------------------------------------------------------------------------
\* sign(x)
Sign(x) == IF x < 0 THEN -1 ELSE IF x > 0 THEN 1 ELSE 0

(* C13: every leg of an order, after add_leg and duplicate calls, has the    *)
(* sign of its quantity given by its order_type prefix (b positive, s        *)
(* negative, in any letter case) and, when its price is set, a price of the  *)
(* same sign.  Leg.__init__ compares order_type[0] with a lower-case 's'     *)
(* only, so a leg of type 'STO' is stored with a positive quantity.          *)
C13_LegSignsFollowOrderType ==
    \A k \in 1..Len(ob.order.legs) :
        /\ IsBuyType(ob.order.legs[k].order_type) => ob.order.legs[k].quantity > 0
        /\ IsSellType(ob.order.legs[k].order_type) => ob.order.legs[k].quantity < 0
        /\ ~IsNone(ob.order.legs[k].price)
             => Sign(Val(ob.order.legs[k].price)) = Sign(ob.order.legs[k].quantity)

------------------------------------------------------------------------------
(* C14: after any sequence of add_leg calls no two legs of the order are on  *)
(* the same instrument: an add_leg for an instrument already present raises  *)
(* and leaves the legs unchanged.  The test is Asset.__eq__ with the stored  *)
(* leg's asset on the left, and Equity('BBB') == Asset('BBB') is False.      *)
C14_OneLegPerInstrument ==
    /\ \A j, k \in 1..Len(ob.order.legs) :
         j # k => ob.order.legs[j].asset.symbol # ob.order.legs[k].asset.symbol
    /\ ( /\ ob.op = "add_leg"
         /\ \E k \in 1..Len(ob.pre.legs) : ob.pre.legs[k].asset.symbol = ob.arg.symbol )
       => /\ ob.err # ""
          /\ ob.order.legs = ob.pre.legs

------------------------------------------------------------------------------
\* the account holds one position only, short, on a stock (no option) that
\* is quoted
OnlyShortStock ==
    /\ Len(account.positions) = 1
    /\ account.positions[1].quantity < 0
    /\ ~IsInstance(account.positions[1].asset, "Option")
    /\ ~IsNone(GetQuote(quotes, account.positions[1].asset))

(* C16: for an account whose only position is a short position of quantity  *)
(* q on a stock quoted at p, the maintenance margin is |q| x p, also when    *)
(* the position was opened through fill_order with a sell-to-open leg on a   *)
(* stock symbol.  asset_factory makes a plain Asset (asset_type 'asset') of  *)
(* a stock symbol, and the margin engine knows a short position only when    *)
(* its asset_type is 'equity'.                                               *)
C16_ShortEquityMargin ==
    OnlyShortStock
    => /\ GetMaintenanceMargin(account.positions, quotes)
            = [err   |-> "",
               value |-> Abs(account.positions[1].quantity)
                           * Val(GetQuote(quotes, account.positions[1].asset))]
       /\ (IsFill /\ last.priced /\ last.failed_leg = 0)
            => /\ last.err = ""
               /\ account.maintenance_margin
                    = Abs(account.positions[1].quantity)
                        * Val(GetQuote(quotes, account.positions[1].asset))

------------------------------------------------------------------------------
(* C15: whenever get_maintenance_margin returns a value, the value is not    *)
(* negative.  The credit put spread term (width - credit) x 100 is negative  *)
(* when the two quotes differ by more than the width of the strikes.         *)
C15_MarginNeverNegative ==
    (mm.called /\ mm.result.err = "") => mm.result.value >= 0

------------------------------------------------------------------------------
\* the call was made with one strategy: a naked short put whose quote and
\* whose underlying's quote have a price
OneNakedPut ==
    /\ mm.called
    /\ Len(mm.strategies) = 1
    /\ mm.strategies[1].strategy_type = "asset"
    /\ mm.strategies[1].direction = "short"
    /\ mm.strategies[1].asset.cls = "Put"
    /\ ~IsNone(mm.quotes[mm.strategies[1].asset.symbol])
    /\ ~IsNone(mm.quotes[mm.strategies[1].asset.underlying])

(* C17: a naked short put of c contracts, strike K, underlying price S and   *)
(* option price P contributes (P + max(0.20 S - otm, 0.10 K)) x 100 x c with *)
(* otm = max(0, S - K); for K = 100, S = 105, P = 2.00, c = 1 it is 1800.00. *)
C17_NakedPutMargin ==
    OneNakedPut
    => LET c == Abs(mm.strategies[1].quantity)
           K == mm.strategies[1].asset.strike
           S == Val(mm.quotes[mm.strategies[1].asset.underlying])
           P == Val(mm.quotes[mm.strategies[1].asset.symbol])
           otm == IF S - K > 0 THEN S - K ELSE 0
           a == (20 * S) \div 100 - otm
           b == (10 * K) \div 100
       IN /\ mm.result.err = ""
          /\ mm.result.value = (P + (IF a >= b THEN a ELSE b)) * 100 * c
          /\ (K = 10000 /\ S = 10500 /\ P = 200 /\ c = 1)
               => mm.result.value = 1800 * 100

\* the example: strike 100.00, underlying 105.00, option 2.00, one contract
C17_Witness ==
    /\ OneNakedPut
    /\ mm.strategies[1] = AssetStrategy(P100, -1)
    /\ mm.quotes["XYZ"] = Some(10500)
    /\ mm.quotes[P100.symbol] = Some(200)
    /\ mm.result = [err |-> "", value |-> 180000]

------------------------------------------------------------------------------
\* the symbols whose price the formula of a strategy reads: short equity,
\* credit put spread, naked short put, naked short call; no other shape
\* reads a price
PricesRead(strategy) ==
    CASE strategy.strategy_type = "spread"
           -> IF strategy.spread_type = "credit" /\ strategy.option_type = "put"
              THEN {strategy.sell_option.symbol, strategy.buy_option.symbol}
              ELSE {}
      [] strategy.strategy_type = "asset" /\ strategy.direction = "short"
           -> IF strategy.asset.cls \in {"Put", "Call"}
              THEN {strategy.asset.symbol, strategy.asset.underlying}
              ELSE IF strategy.asset.cls = "Equity"
              THEN {strategy.asset.symbol}
              ELSE {}
      [] OTHER -> {}

\* the strategies of the call that read a price that is missing
MissingPrice ==
    { i \in 1..Len(mm.strategies) :
        \E sym \in PricesRead(mm.strategies[i]) : IsNone(mm.quotes[sym]) }

(* C18: if the quote, or its price, is absent for an instrument that the     *)
(* formula of one of the strategies reads, get_maintenance_margin ends with  *)
(* an error and returns no total.                                            *)
C18_MissingPriceIsFatal ==
    (mm.called /\ MissingPrice # {}) => mm.result.err # ""

\* a credit put spread whose bought put has no price, after a short equity
\* whose price is known: the call has raised
C18_Witness ==
    /\ mm.called
    /\ mm.strategies = <<AssetStrategy(BBB, -1), SpreadStrategy("credit", "put", P100, P95)>>
    /\ mm.quotes["BBB"] = Some(1050)
    /\ mm.quotes[P100.symbol] = Some(200)
    /\ mm.quotes[P95.symbol] = None
    /\ mm.result.err # ""

\* C19: for every valid (underlying symbol, expiration date, kind, strike) with
\* the strike given in thousandths, the option read from the symbol of the
\* option built from those fields has the same four fields; and the option
\* built from the fields read from a well-formed symbol has that symbol.  The
\* symbol is built from the strike rounded to hundredths.
C19_SymbolRoundTrip ==
    (opt # Idle /\ ~IsNone(opt.second)) =>
        /\ opt.from = "fields" =>
              /\ Val(opt.second).underlying = opt.given.underlying
              /\ Val(opt.second).expiration_date = opt.given.expiration_date
              /\ Val(opt.second).option_type = opt.given.option_type
              /\ Val(opt.second).strike = opt.given.strike
        /\ opt.from = "symbol" =>
              Val(opt.second).symbol = opt.given.symbol

\* the dictionary that holds the quotes of a quote_type
DictOf(quote_type) ==
    CASE quote_type = "option" -> feed.option_quotes
      [] quote_type = "equity" -> feed.equity_quotes
      [] OTHER                 -> feed.other_quotes

\* a quote as one callback built it: every field is that of one built quote
WholeQuote(q) == q \in feed.built

\* what the last finished read of thread t returned is made of whole quotes of
\* what was asked for
ReadIsWhole(t) ==
    LET th == feed.thread[t]
    IN  (th.pc = "idle" /\ ~IsNone(th.result)) =>
           CASE th.op = "get_quote" ->
                   WholeQuote(Val(th.result)) /\ Val(th.result).symbol = Val(th.arg)
             [] th.op = "get_options" ->
                   \A oq \in Val(th.result) :
                       WholeQuote(oq) /\ oq.quote_type = "option"
             [] OTHER ->
                   \A d \in Val(th.result) :
                       \E oq \in feed.built :
                           oq.quote_type = "option" /\ oq.expiration_date = d

\* the symbol's timestamp and the quote stored with it are of one callback:
\* no quote is stored without a timestamp, and the callback that wrote the
\* timestamp is the one whose quote lies in the dictionary of its quote_type
StoredPairIsOfOneCallback(sym) ==
    IF IsNone(feed.last_ts[sym])
    THEN /\ IsNone(feed.option_quotes[sym])
         /\ IsNone(feed.equity_quotes[sym])
         /\ IsNone(feed.other_quotes[sym])
    ELSE \E q \in feed.built :
            /\ q.cb = Val(feed.last_ts[sym])
            /\ q.symbol = sym
            /\ DictOf(q.quote_type)[sym] = Some(q)

\* C20: under any interleaving of on_market_data callbacks with get_quote,
\* get_options and get_expiration_dates, a read returns for each instrument
\* nothing or a quote built whole by one callback, and whenever the lock is
\* not held by a callback the quote and the timestamp stored for a symbol are
\* those of one callback.
C20_ReadsAreWholeAndPaired ==
    feed # Idle =>
        /\ \A t \in Readers : ReadIsWhole(t)
        /\ feed.lock \notin Writers =>
              \A sym \in FeedSymbols : StoredPairIsOfOneCallback(sym)

\* a callback holds the lock, has replaced a symbol's quote and not yet the
\* timestamp an earlier callback left, while a reader that asked for the quote
\* of that symbol waits for the lock
C20_Witness ==
    /\ feed # Idle
    /\ \E w \in Writers, r \in Readers :
          /\ feed.thread[w].pc = "store_ts"
          /\ feed.thread[r].pc = "acquire"
          /\ feed.thread[r].op = "get_quote"
          /\ Val(feed.thread[r].arg) = Val(feed.thread[w].q).symbol
          /\ ~IsNone(feed.last_ts[Val(feed.thread[w].q).symbol])
          /\ Val(feed.last_ts[Val(feed.thread[w].q).symbol]) # feed.thread[w].timestamp

------------------------------------------------------------------------------
\* the cash a leg moves as the claim states it: -(quantity) x |per-unit
\* estimate| x multiplier, the estimate being the quoted price
GrossOfLeg(leg, q) ==
    (0 - leg.quantity) * Abs(Val(q[leg.asset.symbol]))
        * (IF leg.asset.cls \in {"Option", "Put", "Call"} THEN 100 ELSE 1)

RECURSIVE SumGross(_, _, _)
\* the sum of GrossOfLeg over legs 1..n
SumGross(legs, q, n) ==
    IF n = 0 THEN 0 ELSE GrossOfLeg(legs[n], q) + SumGross(legs, q, n - 1)

\* the ledger entries the last call appended
Appended == SubSeq(account.ledger, Len(last.pre_account.ledger) + 1, Len(account.ledger))

(* C21: each leg a fill processes changes account.cash by exactly            *)
(* -(quantity) x |per-unit estimate| x multiplier (100 for an option, 1      *)
(* otherwise): a buy leg lowers cash, a sell leg raises it, the ledger entry *)
(* of the leg carries that change as gross_cash, and the cash after the call *)
(* is the cash before it plus the changes of the legs processed.             *)
C21_LegCashImpact ==
    ( IsFill /\ last.passed )
    => /\ \A j \in 1..Len(Appended) :
            /\ Appended[j].gross_cash = GrossOfLeg(PreOrder.legs[j], last.pre_quotes)
            /\ Appended[j].multiplier
                 = (IF PreOrder.legs[j].asset.cls \in {"Option", "Put", "Call"}
                    THEN 100 ELSE 1)
            /\ PreOrder.legs[j].quantity > 0 => Appended[j].gross_cash < 0
            /\ PreOrder.legs[j].quantity < 0 => Appended[j].gross_cash > 0
       /\ last.failed_leg = 0
            => /\ Len(Appended) = Len(PreOrder.legs)
               /\ account.cash = last.pre_account.cash
                    + SumGross(PreOrder.legs, last.pre_quotes, Len(PreOrder.legs))
       /\ last.failed_leg > 0
            => /\ Len(Appended) = last.failed_leg - 1
               /\ account.cash - last.pre_account.cash
                    - SumGross(PreOrder.legs, last.pre_quotes, last.failed_leg - 1)
                  \in {0, GrossOfLeg(PreOrder.legs[last.failed_leg], last.pre_quotes)}

\* one put contract held, then sold at 10.50 in an order that also buys one
\* share at 10.50: cash rises by 1050.00 and falls by 10.50
C21_Witness ==
    /\ IsFill /\ last.order = 4 /\ last.err = "" /\ last.failed_leg = 0
    /\ PostOrder.status = "filled"
    /\ Len(Appended) = 2
    /\ Appended[1].multiplier = 100 /\ Appended[1].gross_cash = 105000
    /\ Appended[2].multiplier = 1 /\ Appended[2].gross_cash = -1050
    /\ account.cash = last.pre_account.cash + 105000 - 1050

------------------------------------------------------------------------------
\* the orders the last call passed to fill_order
Invoked == { last.invoked[i] : i \in 1..Len(last.invoked) }

\* fill_order evaluated order o in the last call: it was passed to fill_order
\* and every leg had a quote, so an order_price was seen
WasEvaluated(o) ==
    /\ o \in Invoked
    /\ \A k \in 1..Len(last.pre_orders[o].legs) :
          ~IsNone(last.pre_quotes[last.pre_orders[o].legs[k].asset.symbol])

\* the order_price that evaluation saw
SeenPrice(o) == OrderPrice(last.pre_orders[o].legs, last.pre_quotes, 1)

\* the least order_price seen up to and including the last call, given that
\* trail_best held the least one seen before it
LeastSeen(o) ==
    IF IsNone(last.pre_orders[o].trail_best) THEN SeenPrice(o)
    ELSE IF SeenPrice(o) < Val(last.pre_orders[o].trail_best) THEN SeenPrice(o)
    ELSE Val(last.pre_orders[o].trail_best)

\* the trailing stops of the book
TrailingStops == { o \in DOMAIN orders : last.pre_orders[o].condition = "trailing_stop" }

\* trail_best and price of a trailing stop the last call did not evaluate
\* are as they were
TrailUntouched(o) ==
    /\ orders[o].trail_best = last.pre_orders[o].trail_best
    /\ orders[o].price = last.pre_orders[o].price

------------------------------------------------------------------------------
\* a position of the sign opposite to the leg's on the leg's instrument
Opposite(p, leg) ==
    p.asset.symbol = leg.asset.symbol /\ p.quantity * leg.quantity < 0

RECURSIVE Removed(_, _, _, _)
\* the magnitude taken from the opposite positions i..Len(before)
Removed(before, after, leg, i) ==
    IF i > Len(before) THEN 0
    ELSE (IF Opposite(before[i], leg)
          THEN Abs(before[i].quantity) - Abs(after[i].quantity) ELSE 0)
         + Removed(before, after, leg, i + 1)

\* after is before with the opposite positions drained in stored order by
\* the magnitude of the leg
DrainedInOrder(before, after, leg) ==
    /\ Len(after) = Len(before)
    /\ \A i \in 1..Len(before) :
          /\ [after[i] EXCEPT !.quantity = 0] = [before[i] EXCEPT !.quantity = 0]
          /\ ~Opposite(before[i], leg) => after[i] = before[i]
          /\ Opposite(before[i], leg)
               => /\ after[i].quantity * before[i].quantity >= 0
                  /\ Abs(after[i].quantity) <= Abs(before[i].quantity)
    /\ Removed(before, after, leg, 1) = Abs(leg.quantity)
    /\ \A i, j \in 1..Len(before) :
          ( /\ i < j
            /\ Opposite(before[i], leg) /\ Opposite(before[j], leg)
            /\ after[j] # before[j] )
          => after[i].quantity = 0

\* the legs of the last call that were processed to their end
Processed ==
    IF ~(IsFill /\ last.passed) THEN {}
    ELSE IF last.failed_leg > 0 THEN 1..(last.failed_leg - 1)
    ELSE 1..Len(PreOrder.legs)

(* C23: a closing leg of magnitude m reduces the opposite-sign positions on  *)
(* its instrument in their stored order: an earlier-stored position is at    *)
(* zero before a later one is touched, the magnitude removed is exactly m,   *)
(* no position changes sign, and positions on other instruments or of the    *)
(* leg's sign are unchanged; the account the call leaves holds the positions *)
(* so reduced (pruned when the loop over the legs ended).                    *)
C23_DrainsInStoredOrder ==
    ( IsFill /\ last.passed )
    => /\ \A k \in Processed :
            PreOrder.legs[k].order_type \in {"btc", "stc"}
            => DrainedInOrder(LegsApplied(k - 1).positions,
                              LegsApplied(k).positions, PreOrder.legs[k])
       /\ account.positions =
            IF last.failed_leg > 0
            THEN LegsApplied(last.failed_leg - 1).positions
            ELSE Prune(LegsApplied(Len(PreOrder.legs)).positions)

\* two positions of 2 shares, bought at different prices; a leg that sells 3
\* to close has left the first at 0 and the second at 1 (the second leg of
\* the order has aborted the call, so the drained position is still stored)
C23_Witness ==
    /\ IsFill /\ last.order = 4 /\ last.failed_leg = 2
    /\ Len(last.pre_account.positions) = 2
    /\ last.pre_account.positions[1].quantity = 2
    /\ last.pre_account.positions[2].quantity = 2
    /\ last.pre_account.positions[1].cost_basis # last.pre_account.positions[2].cost_basis
    /\ Len(account.positions) = 2
    /\ account.positions[1].quantity = 0
    /\ account.positions[2].quantity = 1

------------------------------------------------------------------------------
\* the positions in the group, in stored order, of the siblings that were
\* open when the last evaluate pass began
OpenBefore == { i \in 1..Len(oco.orders) : last.pre_orders[oco.orders[i]].status = "open" }

\* the position in the group of the sibling the pass filled, 0 if none
FilledAt ==
    IF \E i \in OpenBefore : orders[oco.orders[i]].status = "filled"
    THEN CHOOSE i \in OpenBefore : orders[oco.orders[i]].status = "filled"
    ELSE 0

\* the positions of the siblings the pass has to try: the open ones up to
\* the one that filled, all the open ones when none filled
ToTry == { i \in OpenBefore : FilledAt = 0 \/ i <= FilledAt }

\* the siblings at a set of positions, in stored order
InStoredOrder(S) ==
    LET pick[n \in 0..Len(oco.orders)] ==
            IF n = 0 THEN <<>>
            ELSE IF n \in S THEN Append(pick[n - 1], oco.orders[n]) ELSE pick[n - 1]
    IN pick[Len(oco.orders)]

(* C24: within one evaluate pass of an active group the siblings are tried   *)
(* in stored order, siblings that are not open are not passed to fill_order, *)
(* and the pass stops at the first sibling that fills: an open sibling       *)
(* stored after it is not passed to fill_order (of that order only the       *)
(* status changes, its trailing-stop state is as it was) and it ends         *)
(* 'canceled'.  A pass that fill_order aborts has tried a prefix of them.    *)
C24_PassStopsAtFirstFill ==
    ( IsEvaluate /\ last.pre_oco.is_active )
    => /\ IF last.err = ""
          THEN last.invoked = InStoredOrder(ToTry)
          ELSE /\ Len(last.invoked) <= Len(InStoredOrder(OpenBefore))
               /\ last.invoked = SubSeq(InStoredOrder(OpenBefore), 1, Len(last.invoked))
       /\ Cardinality({ i \in OpenBefore : orders[oco.orders[i]].status = "filled" }) <= 1
       /\ \A i \in 1..Len(oco.orders) :
            i \notin OpenBefore => orders[oco.orders[i]] = last.pre_orders[oco.orders[i]]
       /\ FilledAt # 0
            => \A i \in OpenBefore :
                 i > FilledAt
                 => orders[oco.orders[i]]
                      = [last.pre_orders[oco.orders[i]] EXCEPT !.status = "canceled"]

\* the buy limit stored first has filled in a pass; the trailing stop stored
\* after it, open, quoted and never evaluated before, was not evaluated in
\* this pass either (its trail_best is still unset) and is canceled
C24_Witness ==
    /\ IsEvaluate /\ last.pre_oco.is_active
    /\ last.invoked = <<1>>
    /\ orders[1].status = "filled"
    /\ last.pre_orders[2].status = "open"
    /\ last.pre_orders[2].condition = "trailing_stop"
    /\ ~IsNone(last.pre_quotes["BBB"])
    /\ IsNone(last.pre_orders[2].trail_best)
    /\ orders[2].status = "canceled"
    /\ IsNone(orders[2].trail_best)

------------------------------------------------------------------------------
\* the ledger entry is that of the leg: its order, instrument, side and
\* quantity
EntryOfLeg(entry, order, leg) ==
    /\ entry.order_id = order.order_id
    /\ entry.symbol = leg.asset.symbol
    /\ entry.side = leg.order_type
    /\ entry.quantity = leg.quantity

(* C25: every fill_order call leaves the ledger entries that were there      *)
(* before the call as an unchanged prefix of the ledger; a fill that         *)
(* completes appends exactly one entry per leg of the order, in the legs'    *)
(* stored order; a call whose fill test fails appends nothing.               *)
C25_LedgerIsAppendOnly ==
    IsFill
    => /\ Len(account.ledger) >= Len(last.pre_account.ledger)
       /\ SubSeq(account.ledger, 1, Len(last.pre_account.ledger))
            = last.pre_account.ledger
       /\ (last.passed /\ last.failed_leg = 0)
            => /\ Len(Appended) = Len(PreOrder.legs)
               /\ \A j \in 1..Len(PreOrder.legs) :
                    EntryOfLeg(Appended[j], PreOrder, PreOrder.legs[j])
       /\ ~last.passed => Appended = <<>>

\* on a ledger that held entries, the order [stc 3 BBB, btc 1 AAA] has
\* filled: two entries were appended, BBB then AAA
C25_Witness ==
    /\ IsFill /\ last.order = 4 /\ last.err = ""
    /\ PostOrder.status = "filled"
    /\ Len(last.pre_account.ledger) = 3
    /\ Len(account.ledger) = 5
    /\ account.ledger[4].symbol = "BBB" /\ account.ledger[4].quantity = -3
    /\ account.ledger[5].symbol = "AAA" /\ account.ledger[5].quantity = 1

------------------------------------------------------------------------------
RECURSIVE NonZero(_)
\* the positions of non-zero quantity, in their order
NonZero(positions) ==
    IF positions = <<>> THEN <<>>
    ELSE IF Head(positions).quantity = 0 THEN NonZero(Tail(positions))
    ELSE <<Head(positions)>> \o NonZero(Tail(positions))

\* the positions as the legs of the last call left them, before the pruning
Unpruned ==
    IF last.passed THEN LegsApplied(Len(PreOrder.legs)).positions
    ELSE last.pre_account.positions

(* C26: after a fill_order call that returns normally the account holds no   *)
(* position whose quantity is zero: a position a closing leg drained to      *)
(* exactly zero is removed, and the positions of non-zero quantity are kept  *)
(* in their relative order.                                                  *)
C26_NoZeroPositionLeft ==
    ( IsFill /\ last.err = "" /\ last.priced )
    => /\ \A i \in 1..Len(account.positions) : account.positions[i].quantity # 0
       /\ account.positions = NonZero(Unpruned)

\* of two positions of 2 shares a leg selling 2 has drained the first: it is
\* gone and the second is what the account holds
C26_Witness ==
    /\ IsFill /\ last.order = 5 /\ last.err = ""
    /\ Len(last.pre_account.positions) = 2
    /\ last.pre_account.positions[1].cost_basis # last.pre_account.positions[2].cost_basis
    /\ Len(Unpruned) = 2 /\ Unpruned[1].quantity = 0
    /\ account.positions = <<last.pre_account.positions[2]>>

------------------------------------------------------------------------------
\* the Margin Engine's result for the positions the account holds now, under
\* the quotes as they are now
MarginNow == GetMaintenanceMargin(account.positions, quotes)

(* C27: after every fill_order call that fills an order (the legs were       *)
(* applied and the call returned), account.maintenance_margin is the Margin  *)
(* Engine's result for the account's surviving, pruned positions under the   *)
(* current quotes.                                                           *)
C27_MarginFollowsTheFill ==
    ( IsFill /\ last.passed /\ last.err = "" )
    => /\ PostOrder.status = "filled"
       /\ account.positions = NonZero(Unpruned)
       /\ MarginNow.err = ""
       /\ account.maintenance_margin = MarginNow.value

\* the sell limit has opened a short position of one BBB share at 10.50: the
\* stored margin went from 0 to 10.50
C27_Witness ==
    /\ IsFill /\ last.order = 2 /\ last.passed /\ last.err = ""
    /\ last.pre_account.maintenance_margin = 0
    /\ Len(account.positions) = 1
    /\ account.positions[1].quantity = -1
    /\ account.maintenance_margin = 1050

------------------------------------------------------------------------------
RECURSIVE SumGrossCash(_)
\* the sum of gross_cash over the entries of a ledger
SumGrossCash(ledger) ==
    IF ledger = <<>> THEN 0
    ELSE Head(ledger).gross_cash + SumGrossCash(Tail(ledger))

(* C28: after any sequence of fill_order calls, whether a call filled, did   *)
(* not fill or aborted with a fatal error, account.cash is the initial cash  *)
(* plus the sum of gross_cash over the entries of the ledger.  A closing leg *)
(* that aborts has moved cash and written no entry.                          *)
C28_CashIsLedgerSum ==
    account.cash = InitialCash + SumGrossCash(account.ledger)

------------------------------------------------------------------------------
(* C29: whenever a fill_order call has applied all the legs of an order to   *)
(* the account, order.status is 'filled' when the call ends, also when the   *)
(* call ends with the fatal error of the maintenance margin recomputation.   *)
(* The code marks the order after the recomputation, which the error skips.  *)
C29_AppliedLegsMeanFilled ==
    ( IsFill /\ last.passed /\ last.failed_leg = 0 )
    => PostOrder.status = "filled"

------------------------------------------------------------------------------
\* the ledger entries that carry the order_id of order o
EntriesOf(o) ==
    { i \in 1..Len(account.ledger) : account.ledger[i].order_id = orders[o].order_id }

(* C30: over any sequence of fill_order and evaluate calls the legs of an    *)
(* order are applied to the account at most once: a call made with an order  *)
(* that is already filled or canceled changes no cash, no position and no    *)
(* ledger entry.  fill_order never reads order.status.                       *)
C30_LegsAppliedAtMostOnce ==
    /\ \A o \in DOMAIN orders : Cardinality(EntriesOf(o)) <= Len(orders[o].legs)
    /\ \A o \in Invoked :
          last.pre_orders[o].status \in {"filled", "canceled"}
          => /\ account.cash = last.pre_account.cash
             /\ account.positions = last.pre_account.positions
             /\ account.ledger = last.pre_account.ledger

------------------------------------------------------------------------------
\* the last call was the first fill_order evaluation of a trailing stop built
\* with trail > 0 and no trail_best: every leg had a quote, so an order_price
\* was seen and trail_best was initialised from it
FirstTrailingEvaluation ==
    /\ IsFill
    /\ PreOrder.condition = "trailing_stop"
    /\ PreOrder.trail > 0
    /\ IsNone(PreOrder.trail_best)
    /\ WasEvaluated(last.order)

(* C31: a trailing_stop order constructed with trail > 0 and no initial      *)
(* trail_best never fills on its first fill_order evaluation, in percent     *)
(* mode and in flat mode: the trigger price set when trail_best is           *)
(* initialised is strictly greater than the order_price observed in that     *)
(* same evaluation, so the fill test fails, no leg is applied and the order  *)
(* is not filled.                                                            *)
C31_NoFillOnFirstEvaluation ==
    FirstTrailingEvaluation =>
        /\ PostOrder.trail_best = Some(SeenPrice(last.order))
        /\ Val(PostOrder.price) > SeenPrice(last.order)
        /\ ~last.passed
        /\ account.ledger = last.pre_account.ledger
        /\ PostOrder.status # "filled"

------------------------------------------------------------------------------
\* the callback that completed last among those that stored a quote for sym:
\* each of them writes its timestamp as its last step inside the with block
LatestCompleted(sym) == feed.last_ts[sym]

\* what get_quote(sym) returns when it reads the cache as it is
Returned(sym) == FeedGetQuote(feed, sym)

(* C32: once on_market_data callbacks for a symbol have completed, get_quote *)
(* for that symbol returns the quote built by the most recently completed    *)
(* callback for that symbol, whichever LEVELONE service each callback came   *)
(* from; with no completed callback that built a quote (a non-LEVELONE       *)
(* service, say) the cache holds nothing for the symbol. Stated for every    *)
(* state in which no callback is inside its with block, which are the states *)
(* get_quote can read.                                                       *)
C32_LatestCallbackWins ==
    (feed # Idle /\ feed.lock \notin Writers) =>
        \A sym \in FeedSymbols :
            IF IsNone(LatestCompleted(sym))
            THEN IsNone(Returned(sym))
            ELSE /\ ~IsNone(Returned(sym))
                 /\ Val(Returned(sym)).cb = Val(LatestCompleted(sym))

====
